---- MODULE Spec2Model ----
(***************************************************************************)
(* Pyc-Man: the ghost behaviour engine (src/src/ghost.py), the player      *)
(* agent (src/src/pacman.py), the grid map (src/src/game_map.py) and the   *)
(* mode director / tick loop (src/src/main.py, src/src/ghost_init.py).     *)
(*                                                                         *)
(* Lengths are fixed-point: one unit is 1/100 pixel, so that every speed   *)
(* of the program (1.9, 1, 4, 2, and the products 1.9*0.4, 2*0.87, ...)    *)
(* is an integer.  The program computes with Python floats; the model      *)
(* computes the same sums exactly.                                         *)
(***************************************************************************)
EXTENDS Integers, Sequences, FiniteSets, TLC

VARIABLES
    layout,     \* GameMap.layout: rows of cells, 1 wall, 0 path, 2 pellet, 3 power pellet
    ghosts,     \* the Ghost objects, by name
    pac,        \* the PacMan object
    timer,      \* main: ghost_release_timer
    mode,       \* main: current_ghost_mode
    running,    \* main: running
    gut,        \* the ghost a run of the Ghost object drives ("" in the other runs)
    ncalls,     \* the calls made other than update(); in the game, the key presses
    nupd,       \* unit runs: the update() calls made
    nrand,      \* the random.choice() calls that did not take the first of the list
    last,       \* observer: the last operation, the objects before it and between its steps
    fcount      \* observer: per ghost, update() calls since start_frightened() frightened it

vars == <<layout, ghosts, pac, timer, mode, running, gut, ncalls, nupd, nrand, last, fcount>>

----------------------------------------------------------------------------
(* settings.py *)

TILE_SIZE == 30
FPS == 60
GHOST_SPEED == 190
FRIGHTENED_SPEED == 100
EATEN_SPEED == 400
TUNNEL_ROW == 10
FRIGHTENED_FRAMES == 600
PINKY_TILES_AHEAD == 4
INKY_OFFSET_TILES == 2
CLYDE_SCATTER_DISTANCE_TILES == 8

\* units per pixel
PX == 10 * 10
TILE == TILE_SIZE * PX

\* settings.TUNNEL_SPEED_MULTIPLIER = 0.4, applied to a speed in units
TunnelSpeed(speed) == (speed * 4) \div 10

\* GHOST_HOUSE_EXIT_X/Y = 9.5, 8.5 tiles
HouseExit == [x |-> (95 * TILE) \div 10, y |-> (85 * TILE) \div 10]

GHOST_MODE_CYCLES ==
    << <<"SCATTER", 420>>, <<"CHASE", 1200>>, <<"SCATTER", 420>>, <<"CHASE", 1200>>,
       <<"SCATTER", 300>>, <<"CHASE", 1200>>, <<"SCATTER", 300>>, <<"CHASE", -1>> >>

----------------------------------------------------------------------------
(* direction.py: the Direction enum, a unit grid vector per member *)

Directions == <<"UP", "DOWN", "LEFT", "RIGHT">>
DirSet == {"UP", "DOWN", "LEFT", "RIGHT"}

DirValue(d) ==
    CASE d = "UP"    -> <<0, -1>>
      [] d = "DOWN"  -> <<0, 1>>
      [] d = "LEFT"  -> <<-1, 0>>
      [] d = "RIGHT" -> <<1, 0>>
      [] OTHER       -> <<0, 0>>

----------------------------------------------------------------------------
(* game_map.py *)

InitialLayout ==
    << <<1, 1, 1, 1, 1, 1, 1, 1, 1, 1, 1, 1, 1, 1, 1, 1, 1, 1, 1>>,
       <<1, 3, 2, 2, 2, 2, 2, 2, 2, 1, 2, 2, 2, 2, 2, 2, 2, 3, 1>>,
       <<1, 2, 1, 1, 2, 1, 1, 1, 2, 1, 2, 1, 1, 1, 2, 1, 1, 2, 1>>,
       <<1, 2, 1, 1, 2, 1, 1, 1, 2, 1, 2, 1, 1, 1, 2, 1, 1, 2, 1>>,
       <<1, 2, 2, 2, 2, 2, 2, 2, 2, 2, 2, 2, 2, 2, 2, 2, 2, 2, 1>>,
       <<1, 2, 1, 1, 2, 1, 2, 1, 1, 1, 1, 1, 2, 1, 2, 1, 1, 2, 1>>,
       <<1, 2, 2, 2, 2, 1, 2, 2, 2, 1, 2, 2, 2, 1, 2, 2, 2, 2, 1>>,
       <<1, 1, 1, 1, 2, 1, 1, 1, 0, 1, 0, 1, 1, 1, 2, 1, 1, 1, 1>>,
       <<1, 1, 1, 1, 2, 1, 0, 0, 0, 0, 0, 0, 0, 1, 2, 1, 1, 1, 1>>,
       <<1, 1, 1, 1, 2, 1, 0, 1, 1, 0, 1, 1, 0, 1, 2, 1, 1, 1, 1>>,
       <<0, 0, 0, 0, 2, 0, 0, 1, 0, 0, 0, 1, 0, 0, 2, 0, 0, 0, 0>>,
       <<1, 1, 1, 1, 2, 1, 0, 1, 1, 1, 1, 1, 0, 1, 2, 1, 1, 1, 1>>,
       <<1, 1, 1, 1, 2, 1, 0, 0, 0, 0, 0, 0, 0, 1, 2, 1, 1, 1, 1>>,
       <<1, 1, 1, 1, 2, 1, 2, 1, 1, 1, 1, 1, 2, 1, 2, 1, 1, 1, 1>>,
       <<1, 2, 2, 2, 2, 2, 2, 2, 2, 1, 2, 2, 2, 2, 2, 2, 2, 2, 1>>,
       <<1, 2, 1, 1, 2, 1, 1, 1, 2, 1, 2, 1, 1, 1, 2, 1, 1, 2, 1>>,
       <<1, 3, 2, 1, 2, 2, 2, 2, 2, 0, 2, 2, 2, 2, 2, 1, 2, 3, 1>>,
       <<1, 1, 2, 1, 2, 1, 2, 1, 1, 1, 1, 1, 2, 1, 2, 1, 2, 1, 1>>,
       <<1, 2, 2, 2, 2, 1, 2, 2, 2, 1, 2, 2, 2, 1, 2, 2, 2, 2, 1>>,
       <<1, 2, 1, 1, 1, 1, 1, 1, 2, 1, 2, 1, 1, 1, 1, 1, 1, 2, 1>>,
       <<1, 2, 2, 2, 2, 2, 2, 2, 2, 2, 2, 2, 2, 2, 2, 2, 2, 2, 1>>,
       <<1, 1, 1, 1, 1, 1, 1, 1, 1, 1, 1, 1, 1, 1, 1, 1, 1, 1, 1>> >>

height(L) == Len(L)
width(L) == IF Len(L) > 0 THEN Len(L[1]) ELSE 0

InBounds(L, gx, gy) == 0 <= gy /\ gy < Len(L) /\ 0 <= gx /\ gx < Len(L[1])

\* is_wall that leaves the tunnel row open beyond the map, as _is_visual_wall does
is_wall_tunnel_open(L, gx, gy) ==
    IF InBounds(L, gx, gy) THEN L[gy + 1][gx + 1] = 1
    ELSE ~(gy = 10 /\ (gx < 0 \/ gx >= Len(L[1])))

is_wall(L, gx, gy) == IF InBounds(L, gx, gy) THEN L[gy + 1][gx + 1] = 1 ELSE TRUE

get_cell(L, gx, gy) == IF InBounds(L, gx, gy) THEN L[gy + 1][gx + 1] ELSE 1

\* set_cell that writes a wall whatever the value
set_cell_wall(L, gx, gy, value) ==
    IF InBounds(L, gx, gy) THEN [L EXCEPT ![gy + 1][gx + 1] = 1] ELSE L

set_cell(L, gx, gy, value) ==
    IF InBounds(L, gx, gy) THEN [L EXCEPT ![gy + 1][gx + 1] = value] ELSE L

is_walkable(L, gx, gy) == ~is_wall(L, gx, gy)

\* int(a / b) of Python for b > 0: truncation toward zero
Trunc(a, b) == IF a >= 0 THEN a \div b ELSE -((-a) \div b)

pixel_to_grid(px, py) == <<Trunc(px, TILE), Trunc(py, TILE)>>

grid_to_pixel(gx, gy) == <<gx * TILE + TILE \div 2, gy * TILE + TILE \div 2>>

----------------------------------------------------------------------------
(* position.py *)

\* Position.to_grid: int(x // TILE_SIZE), a floor division
to_grid(x, y) == <<x \div TILE, y \div TILE>>

Abs(n) == IF n < 0 THEN -n ELSE n

\* n * n as <<high, low>> in base 10^6: the squares of the distances the program
\* compares exceed the 32-bit integers of the model checker.
Sq(n) ==
    LET a == Abs(n)
        q == a \div 1000
        r == a % 1000
        lowSum == ((2 * q * r) % 1000) * 1000 + r * r
    IN  <<q * q + (2 * q * r) \div 1000 + lowSum \div 1000000, lowSum % 1000000>>

SqAdd(s, t) == <<s[1] + t[1] + (s[2] + t[2]) \div 1000000, (s[2] + t[2]) % 1000000>>

SqLess(s, t) == s[1] < t[1] \/ (s[1] = t[1] /\ s[2] < t[2])

\* Position.distance_to, squared: both centres are shifted by TILE_SIZE / 2, so
\* the shift cancels.
Dist2(x1, y1, x2, y2) == SqAdd(Sq(x1 - x2), Sq(y1 - y2))

\* distance_to(...) < d and distance_to(...) > d, for a length d >= 0
DistLess(x1, y1, x2, y2, d) == SqLess(Dist2(x1, y1, x2, y2), Sq(d))
DistGreater(x1, y1, x2, y2, d) == SqLess(Sq(d), Dist2(x1, y1, x2, y2))

----------------------------------------------------------------------------
(* ghost.py: the Ghost objects *)

GhostNames == {"Blinky", "Pinky", "Inky", "Clyde"}

\* main / ghost_creation: the order of the ghosts list
GhostOrder == <<"Blinky", "Pinky", "Inky", "Clyde">>

\* main / ghost_creation: the start positions, in tenths of a tile
SpawnTiles(g) ==
    CASE g = "Blinky" -> <<95, 85>>
      [] g = "Pinky"  -> <<85, 105>>
      [] g = "Inky"   -> <<95, 105>>
      [] g = "Clyde"  -> <<105, 105>>

Spawn(g) == [x |-> (SpawnTiles(g)[1] * TILE) \div 10, y |-> (SpawnTiles(g)[2] * TILE) \div 10]

\* Blinky, Pinky, Inky, Clyde: each passes starts_in_house=True to GhostConfig
StartsInHouse(g) == TRUE

\* Ghost.__init__
NewGhost(g) ==
    [x      |-> Spawn(g).x,
     y      |-> Spawn(g).y,
     dir    |-> "RIGHT",
     speed  |-> GHOST_SPEED,
     target |-> <<>>,
     state  |-> "SCATTER",
     house  |-> IF StartsInHouse(g) THEN "IN_HOUSE" ELSE "ACTIVE",
     ftimer |-> 0]

\* in_ghost_house that never holds
in_ghost_house_never(gh) == FALSE

in_ghost_house(gh) == gh.house = "IN_HOUSE"
is_frightened(gh) == gh.state = "FRIGHTENED"
is_eaten(gh) == gh.state = "EATEN"

\* Ghost._reverse_direction
Opposite(d) ==
    CASE d = "UP"    -> "DOWN"
      [] d = "DOWN"  -> "UP"
      [] d = "LEFT"  -> "RIGHT"
      [] d = "RIGHT" -> "LEFT"
      [] OTHER       -> d

reverse_direction(gh) == [gh EXCEPT !.dir = Opposite(gh.dir)]

\* start_frightened with only EATEN in the list of the modes it leaves alone
FrightProofOnlyEaten == {"EATEN"}

\* Ghost.start_frightened: the modes it leaves alone
FrightProof == {"EATEN", "FRIGHTENED"}

start_frightened(gh) ==
    IF gh.state \notin FrightProof
    THEN reverse_direction(
             [gh EXCEPT !.state = "FRIGHTENED", !.ftimer = FRIGHTENED_FRAMES,
                        !.speed = FRIGHTENED_SPEED])
    ELSE gh

\* get_eaten that leaves the speed as it was
get_eaten_keeps_speed(gh) == [gh EXCEPT !.state = "EATEN"]

get_eaten(gh) == [gh EXCEPT !.state = "EATEN", !.speed = EATEN_SPEED]

release_from_house(gh) ==
    IF gh.house = "IN_HOUSE" THEN [gh EXCEPT !.house = "EXITING"] ELSE gh

return_to_house(g, gh) ==
    [gh EXCEPT !.x = Spawn(g).x, !.y = Spawn(g).y, !.house = "IN_HOUSE",
               !.dir = "RIGHT", !.state = "SCATTER", !.speed = GHOST_SPEED]

\* the countdown with the expiry test < 0 in place of <= 0
frightened_tick_late(gh) ==
    IF gh.state = "FRIGHTENED"
    THEN IF gh.ftimer - 1 < 0
         THEN [gh EXCEPT !.ftimer = gh.ftimer - 1, !.state = "SCATTER",
                         !.speed = GHOST_SPEED]
         ELSE [gh EXCEPT !.ftimer = gh.ftimer - 1]
    ELSE gh

\* Ghost.update, step 2: the frightened countdown
ExpiredMode == "SCATTER"

frightened_tick(gh) ==
    IF gh.state = "FRIGHTENED"
    THEN IF gh.ftimer - 1 <= 0
         THEN [gh EXCEPT !.ftimer = gh.ftimer - 1, !.state = ExpiredMode,
                         !.speed = GHOST_SPEED]
         ELSE [gh EXCEPT !.ftimer = gh.ftimer - 1]
    ELSE gh

\* the respawn test with <= TILE_SIZE in place of < TILE_SIZE
reached_house_inclusive(gh) ==
    gh.state = "EATEN" /\ ~DistGreater(gh.x, gh.y, HouseExit.x, HouseExit.y, TILE)

\* Ghost.update, step 3: an eaten ghost close to the house exit
reached_house(gh) ==
    gh.state = "EATEN" /\ DistLess(gh.x, gh.y, HouseExit.x, HouseExit.y, TILE)

\* _respawn_in_house that leaves the speed of the eyes
respawn_in_house_fast(g, gh) ==
    [gh EXCEPT !.state = "SCATTER", !.x = Spawn(g).x, !.y = Spawn(g).y,
               !.house = "EXITING", !.dir = "UP"]

respawn_in_house(g, gh) ==
    [gh EXCEPT !.state = "SCATTER", !.speed = GHOST_SPEED, !.x = Spawn(g).x,
               !.y = Spawn(g).y, !.house = "EXITING", !.dir = "UP"]

\* the tolerance 2.0 of _is_centered_on_tile and of _exit_house
GhostTolerance == 2 * PX

is_centered_on_tile(gh) ==
    LET grid == to_grid(gh.x, gh.y)
        center == grid_to_pixel(grid[1], grid[2])
    IN  Abs(gh.x - center[1]) < GhostTolerance /\ Abs(gh.y - center[2]) < GhostTolerance

is_in_tunnel(gh) == to_grid(gh.x, gh.y)[2] = TUNNEL_ROW

is_opposite_direction(gh, d) ==
    DirValue(d)[1] = -DirValue(gh.dir)[1] /\ DirValue(d)[2] = -DirValue(gh.dir)[2]

\* Ghost._get_distance_for_direction: <<walkable, squared distance>>; the
\* program returns None for a tile that is not walkable.
NextTile(gh, d) ==
    <<to_grid(gh.x, gh.y)[1] + DirValue(d)[1], to_grid(gh.x, gh.y)[2] + DirValue(d)[2]>>

get_distance_for_direction(gh, L, d) ==
    LET nxt == NextTile(gh, d)
        pix == grid_to_pixel(nxt[1], nxt[2])
    IN  Dist2(pix[1], pix[2], gh.target[1], gh.target[2])

\* the loop of _choose_direction taking a direction that is as close as the best
\* so far: of two equally close, the later one
RECURSIVE BestAfterOrEqual(_, _, _)
BestAfterOrEqual(gh, L, i) ==
    IF i = 0 THEN <<gh.dir, FALSE, <<0, 0>> >>
    ELSE LET prev == BestAfterOrEqual(gh, L, i - 1)
             d == Directions[i]
             nxt == NextTile(gh, d)
         IN  IF is_opposite_direction(gh, d) THEN prev
             ELSE IF ~is_walkable(L, nxt[1], nxt[2]) THEN prev
             ELSE LET dist == get_distance_for_direction(gh, L, d)
                  IN  IF ~prev[2] \/ ~SqLess(prev[3], dist)
                      THEN <<d, TRUE, dist>>
                      ELSE prev

\* Ghost._choose_direction, the loop over UP, DOWN, LEFT, RIGHT: the best
\* direction after the first i entries, <<direction, found, squared distance>>;
\* best_distance starts at infinity (found = FALSE).
RECURSIVE BestAfter(_, _, _)
BestAfter(gh, L, i) ==
    IF i = 0 THEN <<gh.dir, FALSE, <<0, 0>> >>
    ELSE LET prev == BestAfter(gh, L, i - 1)
             d == Directions[i]
             nxt == NextTile(gh, d)
         IN  IF is_opposite_direction(gh, d) THEN prev
             ELSE IF ~is_walkable(L, nxt[1], nxt[2]) THEN prev
             ELSE LET dist == get_distance_for_direction(gh, L, d)
                  IN  IF ~prev[2] \/ SqLess(dist, prev[3])
                      THEN <<d, TRUE, dist>>
                      ELSE prev

\* a valid direction that may be the reverse of the ghost's
IsValidDirectionOrReverse(gh, L, d) ==
    is_walkable(L, NextTile(gh, d)[1], NextTile(gh, d)[2])

\* Ghost._choose_random_direction: valid_directions, in the order of the loop
IsValidDirection(gh, L, d) ==
    /\ ~is_opposite_direction(gh, d)
    /\ is_walkable(L, NextTile(gh, d)[1], NextTile(gh, d)[2])

valid_directions(gh, L) == SelectSeq(Directions, LAMBDA d : IsValidDirection(gh, L, d))

\* random.choice(valid_directions): any of them; choice is the place in the
\* list of the one taken (0 when random.choice is not called)
choose_random_direction(gh, L) ==
    IF valid_directions(gh, L) # <<>>
    THEN {[gh |-> [gh EXCEPT !.dir = valid_directions(gh, L)[i]], choice |-> i] :
              i \in 1..Len(valid_directions(gh, L))}
    ELSE {[gh |-> gh, choice |-> 0]}

\* Ghost._choose_direction: the ghosts it can leave
choose_direction(gh, L) ==
    IF ~is_centered_on_tile(gh) THEN {[gh |-> gh, choice |-> 0]}
    ELSE IF gh.state = "FRIGHTENED" THEN choose_random_direction(gh, L)
    ELSE IF gh.target = <<>> THEN {[gh |-> gh, choice |-> 0]}
    ELSE {[gh |-> [gh EXCEPT !.dir = BestAfter(gh, L, 4)[1]], choice |-> 0]}

\* a move that lets the candidate leave the map instead of wrapping it
move_unwrapped(gh, L) ==
    LET dv == DirValue(gh.dir)
        effective_speed == IF is_in_tunnel(gh) THEN TunnelSpeed(gh.speed) ELSE gh.speed
        new_x == gh.x + dv[1] * effective_speed
        new_y == gh.y + dv[2] * effective_speed
        new_grid == to_grid(new_x, new_y)
        grid == to_grid(gh.x, gh.y)
        center == grid_to_pixel(grid[1], grid[2])
    IN  IF is_walkable(L, new_grid[1], new_grid[2])
        THEN [gh EXCEPT !.x = new_x, !.y = new_y]
        ELSE [gh EXCEPT !.x = center[1], !.y = center[2]]

\* a move that takes the candidate without asking whether its tile is walkable
move_unchecked(gh, L) ==
    LET dv == DirValue(gh.dir)
        effective_speed == IF is_in_tunnel(gh) THEN TunnelSpeed(gh.speed) ELSE gh.speed
        raw_x == gh.x + dv[1] * effective_speed
        new_y == gh.y + dv[2] * effective_speed
        map_width_pixels == width(L) * TILE
        new_x == IF raw_x < 0 THEN raw_x + map_width_pixels
                 ELSE IF raw_x >= map_width_pixels THEN raw_x - map_width_pixels
                 ELSE raw_x
    IN  [gh EXCEPT !.x = new_x, !.y = new_y]

\* Ghost._move
move(gh, L) ==
    LET dv == DirValue(gh.dir)
        effective_speed == IF is_in_tunnel(gh) THEN TunnelSpeed(gh.speed) ELSE gh.speed
        raw_x == gh.x + dv[1] * effective_speed
        new_y == gh.y + dv[2] * effective_speed
        map_width_pixels == width(L) * TILE
        new_x == IF raw_x < 0 THEN raw_x + map_width_pixels
                 ELSE IF raw_x >= map_width_pixels THEN raw_x - map_width_pixels
                 ELSE raw_x
        new_grid == to_grid(new_x, new_y)
        grid == to_grid(gh.x, gh.y)
        center == grid_to_pixel(grid[1], grid[2])
    IN  IF is_walkable(L, new_grid[1], new_grid[2])
        THEN [gh EXCEPT !.x = new_x, !.y = new_y]
        ELSE [gh EXCEPT !.x = center[1], !.y = center[2]]

\* _exit_house closing both gaps in one call
exit_house_diagonal(gh) ==
    IF Abs(gh.x - HouseExit.x) > GhostTolerance \/ Abs(gh.y - HouseExit.y) > GhostTolerance
    THEN [gh EXCEPT !.x = IF Abs(gh.x - HouseExit.x) <= GhostTolerance THEN gh.x
                          ELSE IF gh.x < HouseExit.x THEN gh.x + gh.speed
                          ELSE gh.x - gh.speed,
                    !.y = IF Abs(gh.y - HouseExit.y) <= GhostTolerance THEN gh.y
                          ELSE gh.y - gh.speed]
    ELSE [gh EXCEPT !.house = "ACTIVE", !.dir = "LEFT"]

\* _exit_house with no tolerance: the exit point has to be hit
exit_house_exact(gh) ==
    IF gh.x # HouseExit.x
    THEN IF gh.x < HouseExit.x
         THEN [gh EXCEPT !.x = gh.x + gh.speed]
         ELSE [gh EXCEPT !.x = gh.x - gh.speed]
    ELSE IF gh.y # HouseExit.y
    THEN [gh EXCEPT !.y = gh.y - gh.speed]
    ELSE [gh EXCEPT !.house = "ACTIVE", !.dir = "LEFT"]

\* Ghost._exit_house
exit_house(gh) ==
    IF Abs(gh.x - HouseExit.x) > GhostTolerance
    THEN IF gh.x < HouseExit.x
         THEN [gh EXCEPT !.x = gh.x + gh.speed]
         ELSE [gh EXCEPT !.x = gh.x - gh.speed]
    ELSE IF Abs(gh.y - HouseExit.y) > GhostTolerance
    THEN [gh EXCEPT !.y = gh.y - gh.speed]
    ELSE [gh EXCEPT !.house = "ACTIVE", !.dir = "LEFT"]

\* calculate_target with Inky aiming at the point ahead of Pac-Man itself
calculate_target_unreflected(g, gh, L, px, py, pd, blinky) ==
    CASE g = "Blinky" -> <<px, py>>
      [] g = "Pinky" ->
            <<px + pd[1] * PINKY_TILES_AHEAD * TILE, py + pd[2] * PINKY_TILES_AHEAD * TILE>>
      [] g = "Inky" ->
            IF blinky = <<>> THEN <<px, py>>
            ELSE <<px + pd[1] * INKY_OFFSET_TILES * TILE, py + pd[2] * INKY_OFFSET_TILES * TILE>>
      [] g = "Clyde" ->
            IF DistGreater(gh.x, gh.y, px, py, CLYDE_SCATTER_DISTANCE_TILES * TILE)
            THEN <<px, py>>
            ELSE <<1 * TILE, (height(L) - 2) * TILE>>

\* calculate_target with Clyde chasing from 8 tiles on, not from beyond 8 tiles
calculate_target_from_8(g, gh, L, px, py, pd, blinky) ==
    CASE g = "Blinky" -> <<px, py>>
      [] g = "Pinky" ->
            <<px + pd[1] * PINKY_TILES_AHEAD * TILE, py + pd[2] * PINKY_TILES_AHEAD * TILE>>
      [] g = "Inky" ->
            IF blinky = <<>> THEN <<px, py>>
            ELSE LET ix == px + pd[1] * INKY_OFFSET_TILES * TILE
                     iy == py + pd[2] * INKY_OFFSET_TILES * TILE
                 IN  <<blinky[1] + (ix - blinky[1]) * 2, blinky[2] + (iy - blinky[2]) * 2>>
      [] g = "Clyde" ->
            IF ~DistLess(gh.x, gh.y, px, py, CLYDE_SCATTER_DISTANCE_TILES * TILE)
            THEN <<px, py>>
            ELSE <<1 * TILE, (height(L) - 2) * TILE>>

\* Blinky/Pinky/Inky/Clyde.calculate_target; blinky is the position <<x, y>> of
\* the Blinky that Inky refers to, or <<>> for None
calculate_target(g, gh, L, px, py, pd, blinky) ==
    CASE g = "Blinky" -> <<px, py>>
      [] g = "Pinky" ->
            <<px + pd[1] * PINKY_TILES_AHEAD * TILE, py + pd[2] * PINKY_TILES_AHEAD * TILE>>
      [] g = "Inky" ->
            IF blinky = <<>> THEN <<px, py>>
            ELSE LET ix == px + pd[1] * INKY_OFFSET_TILES * TILE
                     iy == py + pd[2] * INKY_OFFSET_TILES * TILE
                 IN  <<blinky[1] + (ix - blinky[1]) * 2, blinky[2] + (iy - blinky[2]) * 2>>
      [] g = "Clyde" ->
            IF DistGreater(gh.x, gh.y, px, py, CLYDE_SCATTER_DISTANCE_TILES * TILE)
            THEN <<px, py>>
            ELSE <<1 * TILE, (height(L) - 2) * TILE>>

\* the target by mode with no case for the Eaten ghost, which then chases
update_target_eaten_chases(g, gh, L, px, py, pd, blinky) ==
    IF gh.state = "FRIGHTENED" THEN <<0, 0>>
    ELSE calculate_target(g, gh, L, px, py, pd, blinky)

\* Ghost.update, step 5: the target by mode
update_target(g, gh, L, px, py, pd, blinky) ==
    IF gh.state = "EATEN" THEN <<HouseExit.x, HouseExit.y>>
    ELSE IF gh.state = "FRIGHTENED" THEN <<0, 0>>
    ELSE calculate_target(g, gh, L, px, py, pd, blinky)

\* Ghost.update: the set of outcomes [gh, trace, choice], trace naming the
\* methods the call invoked (what the tests observe with spies)
update(g, gh, L, px, py, pd, blinky) ==
    LET g1 == frightened_tick(gh)
    IN  IF reached_house(g1)
        THEN {[gh |-> respawn_in_house(g, g1), trace |-> {"_respawn_in_house"}, choice |-> 0]}
        ELSE IF in_ghost_house(g1) THEN {[gh |-> g1, trace |-> {}, choice |-> 0]}
        ELSE IF g1.house = "EXITING"
        THEN {[gh |-> exit_house(g1), trace |-> {"_exit_house"}, choice |-> 0]}
        ELSE LET g2 == [g1 EXCEPT !.target = update_target(g, g1, L, px, py, pd, blinky)]
             IN  {[gh |-> move(c.gh, L),
                   trace |-> {"calculate_target", "_choose_direction", "_move"},
                   choice |-> c.choice] : c \in choose_direction(g2, L)}

----------------------------------------------------------------------------
(* pacman.py: the PacMan object *)

PACMAN_SPEED == 200
EATING_MULTIPLIER == 87
NORMAL_MULTIPLIER == 100
PELLET_SCORE == 10
POWER_PELLET_SCORE == 50
GHOST_SCORE == 200
START_LIVES == 3
PELLET_TOLERANCE == 5
TURN_TOLERANCE == 8

\* PacMan.__init__; pellets_eaten is the counter main reads
NewPacMan(x, y) ==
    [x |-> x, y |-> y, dir |-> "NONE", next_dir |-> "NONE",
     speed |-> PACMAN_SPEED, mult |-> NORMAL_MULTIPLIER, eating_timer |-> 0,
     score |-> 0, lives |-> START_LIVES,
     powered_up |-> FALSE, power_up_timer |-> 0, pellets_eaten |-> 0]

\* main: PacMan(game_map, 9 * TILE_SIZE + TILE_SIZE / 2, 16 * TILE_SIZE + TILE_SIZE / 2)
PacStart == [x |-> 9 * TILE + TILE \div 2, y |-> 16 * TILE + TILE \div 2]

\* PacMan.handle_input: keys is the set of directions whose keys are down
handle_input(p, keys) ==
    IF "UP" \in keys THEN [p EXCEPT !.next_dir = "UP"]
    ELSE IF "DOWN" \in keys THEN [p EXCEPT !.next_dir = "DOWN"]
    ELSE IF "LEFT" \in keys THEN [p EXCEPT !.next_dir = "LEFT"]
    ELSE IF "RIGHT" \in keys THEN [p EXCEPT !.next_dir = "RIGHT"]
    ELSE p

\* PacMan._is_opposite_direction
pac_is_opposite_direction(p, d) ==
    IF p.dir = "NONE" THEN FALSE
    ELSE DirValue(p.dir)[1] * (-1) = DirValue(d)[1] /\ DirValue(p.dir)[2] * (-1) = DirValue(d)[2]

\* a turn allowed at the tolerance itself
can_turn_inclusive(p) ==
    LET grid == to_grid(p.x, p.y)
        center == grid_to_pixel(grid[1], grid[2])
    IN  Abs(p.x - center[1]) <= TURN_TOLERANCE * PX /\ Abs(p.y - center[2]) <= TURN_TOLERANCE * PX

\* PacMan._can_turn
can_turn(p) ==
    LET grid == to_grid(p.x, p.y)
        center == grid_to_pixel(grid[1], grid[2])
    IN  Abs(p.x - center[1]) < TURN_TOLERANCE * PX /\ Abs(p.y - center[2]) < TURN_TOLERANCE * PX

\* a change of direction that centres Pac-Man on its tile when it reverses
try_change_direction_snaps(p, L) ==
    IF p.next_dir = "NONE" THEN p
    ELSE IF p.dir = "NONE" \/ pac_is_opposite_direction(p, p.next_dir)
    THEN [p EXCEPT !.x = grid_to_pixel(to_grid(p.x, p.y)[1], to_grid(p.x, p.y)[2])[1],
                   !.y = grid_to_pixel(to_grid(p.x, p.y)[1], to_grid(p.x, p.y)[2])[2],
                   !.dir = p.next_dir, !.next_dir = "NONE"]
    ELSE IF can_turn(p)
    THEN LET grid == to_grid(p.x, p.y)
             dv == DirValue(p.next_dir)
             pixel == grid_to_pixel(grid[1], grid[2])
         IN  IF is_walkable(L, grid[1] + dv[1], grid[2] + dv[2])
             THEN IF p.dir \in {"LEFT", "RIGHT"}
                  THEN [p EXCEPT !.x = pixel[1], !.dir = p.next_dir, !.next_dir = "NONE"]
                  ELSE [p EXCEPT !.y = pixel[2], !.dir = p.next_dir, !.next_dir = "NONE"]
             ELSE p
    ELSE p

\* PacMan._try_change_direction
try_change_direction(p, L) ==
    IF p.next_dir = "NONE" THEN p
    ELSE IF p.dir = "NONE" \/ pac_is_opposite_direction(p, p.next_dir)
    THEN [p EXCEPT !.dir = p.next_dir, !.next_dir = "NONE"]
    ELSE IF can_turn(p)
    THEN LET grid == to_grid(p.x, p.y)
             dv == DirValue(p.next_dir)
             pixel == grid_to_pixel(grid[1], grid[2])
         IN  IF is_walkable(L, grid[1] + dv[1], grid[2] + dv[2])
             THEN IF p.dir \in {"LEFT", "RIGHT"}
                  THEN [p EXCEPT !.x = pixel[1], !.dir = p.next_dir, !.next_dir = "NONE"]
                  ELSE [p EXCEPT !.y = pixel[2], !.dir = p.next_dir, !.next_dir = "NONE"]
             ELSE p
    ELSE p

\* a move that always takes the candidate position, wall ahead or not
pac_move_through(p, L) ==
    IF p.dir = "NONE" THEN p
    ELSE
    LET dv == DirValue(p.dir)
        effective_speed == (p.speed * p.mult) \div 100
        raw_x == p.x + dv[1] * effective_speed
        map_width_pixels == width(L) * TILE
    IN  [p EXCEPT !.x = IF raw_x < 0 THEN raw_x + map_width_pixels
                        ELSE IF raw_x >= map_width_pixels THEN raw_x - map_width_pixels
                        ELSE raw_x,
                  !.y = p.y + dv[2] * effective_speed]

\* PacMan._move
pac_move(p, L) ==
    IF p.dir = "NONE" THEN p
    ELSE
    LET dv == DirValue(p.dir)
        effective_speed == (p.speed * p.mult) \div 100
        raw_x == p.x + dv[1] * effective_speed
        new_y == p.y + dv[2] * effective_speed
        map_width_pixels == width(L) * TILE
        new_x == IF raw_x < 0 THEN raw_x + map_width_pixels
                 ELSE IF raw_x >= map_width_pixels THEN raw_x - map_width_pixels
                 ELSE raw_x
        grid == pixel_to_grid(p.x, p.y)
        center == grid_to_pixel(grid[1], grid[2])
        raw_next_x == grid[1] + dv[1]
        next_grid_y == grid[2] + dv[2]
        next_grid_x == IF raw_next_x < 0 THEN width(L) - 1
                       ELSE IF raw_next_x >= width(L) THEN 0
                       ELSE raw_next_x
        blocked == /\ ~is_walkable(L, next_grid_x, next_grid_y)
                   /\ \/ (p.dir = "RIGHT" /\ new_x > center[1])
                      \/ (p.dir = "LEFT" /\ new_x < center[1])
                      \/ (p.dir = "DOWN" /\ new_y > center[2])
                      \/ (p.dir = "UP" /\ new_y < center[2])
    IN  IF blocked
        THEN [p EXCEPT !.x = center[1], !.y = center[2]]
        ELSE [p EXCEPT !.x = new_x, !.y = new_y]

\* a power-up that sets the timer and forgets the flag
activate_power_up_unflagged(p) == [p EXCEPT !.power_up_timer = 10 * FPS]

\* PacMan._activate_power_up; power_up_duration = 10 * FPS
activate_power_up(p) == [p EXCEPT !.powered_up = TRUE, !.power_up_timer = 10 * FPS]

\* the eating slowdown both branches of _check_pellet_collision start
start_eating(p) == [p EXCEPT !.eating_timer = 1, !.mult = EATING_MULTIPLIER]

\* the count behind pacman.pellets_eaten, which main passes to handle_ghost_release
count_pellet(p) == [p EXCEPT !.pellets_eaten = p.pellets_eaten + 1]

\* PacMan._check_pellet_collision: the cell Pac-Man is over and whether it is
\* close enough to the centre to eat it
pellet_cell(p) == to_grid(p.x, p.y)

at_pellet_center(p) ==
    LET grid == pellet_cell(p)
        pixel == grid_to_pixel(grid[1], grid[2])
    IN  /\ Abs(p.x - pixel[1]) < PELLET_TOLERANCE * PX
        /\ Abs(p.y - pixel[2]) < PELLET_TOLERANCE * PX

\* a pellet check that scores the pellet and leaves it in the maze
check_pellet_collision_keeps_cell(p, L, gs) ==
    LET grid == pellet_cell(p)
        cell_value == get_cell(L, grid[1], grid[2])
    IN  IF at_pellet_center(p) /\ cell_value = 2
        THEN [p |-> start_eating(count_pellet([p EXCEPT !.score = p.score + PELLET_SCORE])),
              L |-> L,
              gs |-> gs]
        ELSE IF at_pellet_center(p) /\ cell_value = 3
        THEN [p |-> start_eating(count_pellet(activate_power_up(
                        [p EXCEPT !.score = p.score + POWER_PELLET_SCORE]))),
              L |-> set_cell(L, grid[1], grid[2], 0),
              gs |-> [g \in DOMAIN gs |-> start_frightened(gs[g])]]
        ELSE [p |-> p, L |-> L, gs |-> gs]

\* PacMan._check_pellet_collision: [p, L, gs], gs the ghosts by name
check_pellet_collision(p, L, gs) ==
    LET grid == pellet_cell(p)
        cell_value == get_cell(L, grid[1], grid[2])
    IN  IF at_pellet_center(p) /\ cell_value = 2
        THEN [p |-> start_eating(count_pellet([p EXCEPT !.score = p.score + PELLET_SCORE])),
              L |-> set_cell(L, grid[1], grid[2], 0),
              gs |-> gs]
        ELSE IF at_pellet_center(p) /\ cell_value = 3
        THEN [p |-> start_eating(count_pellet(activate_power_up(
                        [p EXCEPT !.score = p.score + POWER_PELLET_SCORE]))),
              L |-> set_cell(L, grid[1], grid[2], 0),
              gs |-> [g \in DOMAIN gs |-> start_frightened(gs[g])]]
        ELSE [p |-> p, L |-> L, gs |-> gs]

\* PacMan._update_power_up
update_power_up(p) ==
    IF p.powered_up
    THEN IF p.power_up_timer - 1 <= 0
         THEN [p EXCEPT !.power_up_timer = p.power_up_timer - 1, !.powered_up = FALSE]
         ELSE [p EXCEPT !.power_up_timer = p.power_up_timer - 1]
    ELSE p

\* PacMan._update_eating_timer
update_eating_timer(p) ==
    IF p.eating_timer > 0
    THEN IF p.eating_timer - 1 = 0
         THEN [p EXCEPT !.eating_timer = p.eating_timer - 1, !.mult = NORMAL_MULTIPLIER]
         ELSE [p EXCEPT !.eating_timer = p.eating_timer - 1]
    ELSE p

\* a death that takes every life left
die_loses_all(p) == [p EXCEPT !.lives = 0]

\* PacMan._die
die(p) == [p EXCEPT !.lives = p.lives - 1]

\* PacMan._check_ghost_collisions: dist < hitbox_radius * 2, with
\* hitbox_radius = TILE_SIZE / 2 * 0.8
HitDistance == (TILE * 8) \div 10

within_hitbox(p, gh) == DistLess(p.x, p.y, gh.x, gh.y, HitDistance)

\* a collision that eats the Frightened ghost without the bonus
collide_without_bonus(p, gh) ==
    IF within_hitbox(p, gh)
    THEN IF is_frightened(gh)
         THEN [p |-> p, gh |-> get_eaten(gh)]
         ELSE IF ~is_eaten(gh) /\ ~in_ghost_house(gh)
         THEN [p |-> die(p), gh |-> gh]
         ELSE [p |-> p, gh |-> gh]
    ELSE [p |-> p, gh |-> gh]

\* PacMan._check_ghost_collisions, the body of the loop for one ghost: [p, gh]
collide(p, gh) ==
    IF within_hitbox(p, gh)
    THEN IF is_frightened(gh)
         THEN [p |-> [p EXCEPT !.score = p.score + GHOST_SCORE], gh |-> get_eaten(gh)]
         ELSE IF ~is_eaten(gh) /\ ~in_ghost_house(gh)
         THEN [p |-> die(p), gh |-> gh]
         ELSE [p |-> p, gh |-> gh]
    ELSE [p |-> p, gh |-> gh]

\* PacMan._check_ghost_collisions: the loop over the list order, from its
\* i-th ghost on; [p, gs]
RECURSIVE check_ghost_collisions(_, _, _, _)
check_ghost_collisions(p, gs, order, i) ==
    IF i > Len(order) THEN [p |-> p, gs |-> gs]
    ELSE LET hit == collide(p, gs[order[i]])
         IN  check_ghost_collisions(hit.p, [gs EXCEPT ![order[i]] = hit.gh], order, i + 1)

\* PacMan.update: [p, L, gs] after it, with turned (Pac-Man after
\* _try_change_direction), moved (after _move), fed (after
\* _check_pellet_collision) and mid (Pac-Man and the ghosts as
\* _check_ghost_collisions found them)
pac_update(p, L, gs, order) ==
    LET turned == try_change_direction(p, L)
        moved == pac_move(turned, L)
        eaten == check_pellet_collision(moved, L, gs)
        timed == update_eating_timer(update_power_up(eaten.p))
        hit == check_ghost_collisions(timed, eaten.gs, order, 1)
    IN  [p |-> hit.p, L |-> eaten.L, gs |-> hit.gs,
         turned |-> turned, moved |-> moved, fed |-> eaten.p,
         mid |-> [p |-> timed, gs |-> eaten.gs]]

\* ghost_init.py: the broadcast of the Director's mode

\* Ghost.set_state(state, reverse_direction): the ghost is switched to the
\* mode and, on a mode change, has its direction reversed once
set_state(gh, state, reverse) ==
    IF reverse THEN reverse_direction([gh EXCEPT !.state = state])
    ELSE [gh EXCEPT !.state = state]

\* set_ghost_modes without the test of the house
set_ghost_modes_in_house(gs, m, previous_mode) ==
    [g \in DOMAIN gs |->
        IF is_frightened(gs[g]) \/ is_eaten(gs[g]) THEN gs[g]
        ELSE IF m = "SCATTER" THEN set_state(gs[g], "SCATTER", m # previous_mode)
        ELSE IF m = "CHASE" THEN set_state(gs[g], "CHASE", m # previous_mode)
        ELSE gs[g]]

\* set_ghost_modes that skips no ghost
set_ghost_modes_everyone(gs, m, previous_mode) ==
    [g \in DOMAIN gs |->
        IF m = "SCATTER" THEN set_state(gs[g], "SCATTER", m # previous_mode)
        ELSE IF m = "CHASE" THEN set_state(gs[g], "CHASE", m # previous_mode)
        ELSE gs[g]]

\* set_ghost_modes
set_ghost_modes(gs, m, previous_mode) ==
    [g \in DOMAIN gs |->
        IF is_frightened(gs[g]) \/ is_eaten(gs[g]) \/ in_ghost_house(gs[g]) THEN gs[g]
        ELSE IF m = "SCATTER" THEN set_state(gs[g], "SCATTER", m # previous_mode)
        ELSE IF m = "CHASE" THEN set_state(gs[g], "CHASE", m # previous_mode)
        ELSE gs[g]]

----------------------------------------------------------------------------
(* A Ghost object under the calls of its public interface, as the unit tests
   of tests/test_ghost.py and tests/test_ghost_features.py drive it: the test
   sets the object up, calls start_frightened / get_eaten / release_from_house /
   return_to_house, and then calls update() any number of times. *)

\* the calls other than update() a run makes
MaxCalls == 2
\* the calls other than update() come before this many update() calls
CallWindow == 1
\* the update() calls a run makes
MaxUpdates == 604
\* the random.choice() calls of a run that take another than the first of the list
MaxRandom == 1

\* the outcomes of an update the random source allows
Drawn(r) == r.choice <= 1 \/ nrand < MaxRandom
RandomUsed(r) == IF r.choice > 1 THEN 1 ELSE 0

\* the ghosts the unit runs drive
GutNames == {"Blinky", "Pinky"}

\* tiles and headings an ACTIVE ghost is set up on: the house exit and the
\* corridor above the house
ActiveStarts == {<<9, 8, "LEFT">>, <<8, 8, "LEFT">>}

GhostStarts(g) ==
    {[x |-> Spawn(g).x, y |-> Spawn(g).y, dir |-> "RIGHT", house |-> "IN_HOUSE"]}
    \cup {[x |-> Spawn(g).x, y |-> Spawn(g).y, dir |-> d, house |-> "EXITING"] :
              d \in {"RIGHT", "UP"}}
    \cup {[x |-> grid_to_pixel(a[1], a[2])[1], y |-> grid_to_pixel(a[1], a[2])[2],
           dir |-> a[3], house |-> "ACTIVE"] : a \in ActiveStarts}

\* the Pac-Man every update() of a run is called with: as main places it, or
\* in the upper left of the maze heading left
PacInputs ==
    {NewPacMan(PacStart.x, PacStart.y),
     [NewPacMan(grid_to_pixel(4, 4)[1], grid_to_pixel(4, 4)[2]) EXCEPT !.dir = "LEFT"]}

NoCount == 0 - 1
CountCap == FRIGHTENED_FRAMES + 1

InitGhost ==
    /\ layout = InitialLayout
    /\ pac \in PacInputs
    /\ timer = 0
    /\ mode = "SCATTER"
    /\ running = TRUE
    /\ gut \in GutNames
    /\ \E s \in GhostStarts(gut), m \in {"SCATTER", "CHASE"} :
          ghosts = [g \in GhostNames |->
                       IF g = gut
                       THEN [NewGhost(g) EXCEPT !.x = s.x, !.y = s.y, !.dir = s.dir,
                                                !.house = s.house, !.state = m]
                       ELSE NewGhost(g)]
    /\ ncalls = 0
    /\ nupd = 0
    /\ nrand = 0
    /\ last = [op |-> "init"]
    /\ fcount = [g \in GhostNames |-> NoCount]

CanCall == ncalls < MaxCalls /\ nupd < CallWindow

Call(op, after, count) ==
    /\ CanCall
    /\ ghosts' = [ghosts EXCEPT ![gut] = after]
    /\ last' = [op |-> op, g |-> gut, pre |-> ghosts[gut], trace |-> {}]
    /\ fcount' = [fcount EXCEPT ![gut] = count]
    /\ ncalls' = ncalls + 1
    /\ UNCHANGED <<layout, pac, timer, mode, running, gut, nupd, nrand>>

\* start_frightened() starts the count when it turns a ghost Frightened
GStartFrightened ==
    Call("start_frightened", start_frightened(ghosts[gut]),
         IF ~is_frightened(ghosts[gut]) /\ is_frightened(start_frightened(ghosts[gut]))
         THEN 0 ELSE fcount[gut])

GGetEaten == Call("get_eaten", get_eaten(ghosts[gut]), NoCount)

GReleaseFromHouse == Call("release_from_house", release_from_house(ghosts[gut]), fcount[gut])

GReturnToHouse == Call("return_to_house", return_to_house(gut, ghosts[gut]), NoCount)

BlinkyPosition(gs) == <<gs["Blinky"].x, gs["Blinky"].y>>

\* main: current_dir = pacman.direction.value
GUpdate ==
    /\ nupd < MaxUpdates
    /\ \E r \in update(gut, ghosts[gut], layout, pac.x, pac.y, DirValue(pac.dir),
                       BlinkyPosition(ghosts)) :
        /\ Drawn(r)
        /\ nrand' = nrand + RandomUsed(r)
        /\ ghosts' = [ghosts EXCEPT ![gut] = r.gh]
        /\ last' = [op |-> "update", g |-> gut, pre |-> ghosts[gut], trace |-> r.trace]
        /\ fcount' = [fcount EXCEPT ![gut] =
                         IF @ = NoCount THEN NoCount
                         ELSE IF @ < CountCap THEN @ + 1 ELSE @]
        /\ nupd' = nupd + 1
        /\ UNCHANGED <<layout, pac, timer, mode, running, gut, ncalls>>

\* main: set_ghost_modes(ghosts, new_ghost_mode, current_ghost_mode) on a
\* change of the Director's mode
GSetGhostModes ==
    /\ CanCall
    /\ \E m \in {"SCATTER", "CHASE"} :
          /\ m # mode
          /\ mode' = m
          /\ ghosts' = set_ghost_modes(ghosts, m, mode)
    /\ last' = [op |-> "set_ghost_modes", g |-> gut, pre |-> ghosts[gut], trace |-> {}]
    /\ ncalls' = ncalls + 1
    /\ UNCHANGED <<layout, pac, timer, running, gut, nupd, nrand, fcount>>

NextGhost ==
    \/ GStartFrightened
    \/ GGetEaten
    \/ GReleaseFromHouse
    \/ GReturnToHouse
    \/ GUpdate

SpecGhost == InitGhost /\ [][NextGhost]_vars

\* the same runs with the Director's broadcast among the calls
NextBroadcast == NextGhost \/ GSetGhostModes

SpecBroadcast == InitGhost /\ [][NextBroadcast]_vars

----------------------------------------------------------------------------
(* The PacMan object under handle_input() and update(ghosts), as
   tests/test_pacman.py drives it: the test places Pac-Man and the ghosts and
   calls update. *)

\* the update() calls a run of the PacMan object makes
MaxPacUpdates == 6

\* pygame.key.get_pressed(): the direction keys that are down
KeySets == {{}, {"UP"}, {"DOWN"}, {"LEFT"}, {"RIGHT"}}

\* a ghost placed on the centre of a tile of the maze, free to roam
Placed(g, gx, gy, d, m) ==
    [NewGhost(g) EXCEPT !.x = grid_to_pixel(gx, gy)[1], !.y = grid_to_pixel(gx, gy)[2],
                        !.dir = d, !.house = "ACTIVE", !.state = m]

\* the modes a ghost is set up in, through the calls that lead to them
InModes(gh, scared, eaten) ==
    {gh} \cup (IF scared THEN {start_frightened(gh)} ELSE {})
         \cup (IF eaten THEN {get_eaten(start_frightened(gh))} ELSE {})

\* Pac-Man in the corridor above the ghost house, 28 pixels left of the house
\* exit and heading for it
PacAtHouse ==
    [NewPacMan(HouseExit.x - 28 * PX, HouseExit.y) EXCEPT !.dir = "RIGHT"]

\* Pac-Man 8 pixels below the centre of the pellet at (2, 16), coming up from
\* (2, 18), and 8 pixels right of the power pellet at (1, 16), coming from there
PacAtPellet ==
    [NewPacMan(grid_to_pixel(2, 16)[1], grid_to_pixel(2, 16)[2] + 8 * PX) EXCEPT !.dir = "UP"]
PacAtPower ==
    [NewPacMan(grid_to_pixel(1, 16)[1] + 8 * PX, grid_to_pixel(1, 16)[2]) EXCEPT !.dir = "LEFT"]

\* the maze as those two find it: the pellets on their way are gone
PelletLayout == set_cell(set_cell(InitialLayout, 2, 18, 0), 2, 17, 0)
PowerLayout == set_cell(PelletLayout, 2, 16, 0)

\* the ghosts around the house exit: Blinky waiting on it, Pinky and Clyde in
\* the house or on the tile left of the exit
HouseSetups ==
    {[g \in GhostNames |->
        CASE g = "Blinky" -> b [] g = "Pinky" -> k [] g = "Clyde" -> c [] OTHER -> NewGhost(g)] :
      b \in InModes(NewGhost("Blinky"), TRUE, TRUE),
      k \in {NewGhost("Pinky")} \cup InModes(Placed("Pinky", 8, 8, "LEFT", "CHASE"), TRUE, TRUE),
      c \in {NewGhost("Clyde"), Placed("Clyde", 8, 8, "LEFT", "SCATTER")}}

\* the ghosts around the power pellet: Pinky on it, in any mode, or in the house
PowerSetups ==
    {[g \in GhostNames |-> IF g = "Pinky" THEN k ELSE NewGhost(g)] :
      k \in {NewGhost("Pinky")} \cup InModes(Placed("Pinky", 1, 16, "RIGHT", "CHASE"), TRUE, TRUE)}

FreshGhosts == [g \in GhostNames |-> NewGhost(g)]

\* Pac-Man in the tunnel row, 3 pixels from the left edge of the map and
\* heading out of it
PacAtTunnel == [NewPacMan(3 * PX, grid_to_pixel(0, 10)[2]) EXCEPT !.dir = "LEFT"]

PacScenes ==
    {[p |-> NewPacMan(PacStart.x, PacStart.y), L |-> InitialLayout, gs |-> FreshGhosts],
     [p |-> PacAtPellet, L |-> PelletLayout, gs |-> FreshGhosts],
     [p |-> PacAtTunnel, L |-> InitialLayout, gs |-> FreshGhosts]}
    \cup {[p |-> PacAtHouse, L |-> InitialLayout, gs |-> gs] : gs \in HouseSetups}
    \cup {[p |-> PacAtPower, L |-> PowerLayout, gs |-> gs] : gs \in PowerSetups}

InitPac ==
    /\ \E scene \in PacScenes : layout = scene.L /\ pac = scene.p /\ ghosts = scene.gs
    /\ timer = 0
    /\ mode = "SCATTER"
    /\ running = TRUE
    /\ gut = ""
    /\ ncalls = 0
    /\ nupd = 0
    /\ nrand = 0
    /\ last = [op |-> "init"]
    /\ fcount = [g \in GhostNames |-> NoCount]

\* main: pacman.handle_input(); pacman.update(ghosts)
PUpdate ==
    /\ nupd < MaxPacUpdates
    /\ \E keys \in KeySets :
        LET r == pac_update(handle_input(pac, keys), layout, ghosts, GhostOrder)
        IN  /\ pac' = r.p
            /\ layout' = r.L
            /\ ghosts' = r.gs
            /\ last' = [op |-> "pacman.update", pre |-> pac, moved |-> r.moved,
                        cell |-> get_cell(layout, pellet_cell(r.moved)[1], pellet_cell(r.moved)[2]),
                        fed |-> r.fed, mid |-> r.mid,
                        asked |-> handle_input(pac, keys), turned |-> r.turned, found |-> ghosts]
    /\ nupd' = nupd + 1
    /\ UNCHANGED <<timer, mode, running, gut, ncalls, nrand, fcount>>

NextPac == PUpdate

SpecPac == InitPac /\ [][NextPac]_vars

----------------------------------------------------------------------------
(* main.py: the mode director, the ghost release and the game loop *)

\* get_ghost_mode with an entry lasting through the tick that ends it
RECURSIVE mode_in_inclusive(_, _, _)
mode_in_inclusive(cycles, elapsed, i) ==
    IF i > Len(cycles) THEN "CHASE"
    ELSE IF cycles[i][2] = -1 THEN cycles[i][1]
    ELSE IF elapsed <= cycles[i][2] THEN cycles[i][1]
    ELSE mode_in_inclusive(cycles, elapsed - cycles[i][2], i + 1)

\* get_ghost_mode: the loop over the cycle table (GHOST_MODE_CYCLES, which the
\* tests patch) from its i-th entry on
RECURSIVE mode_in(_, _, _)
mode_in(cycles, elapsed, i) ==
    IF i > Len(cycles) THEN "CHASE"
    ELSE IF cycles[i][2] = -1 THEN cycles[i][1]
    ELSE IF elapsed < cycles[i][2] THEN cycles[i][1]
    ELSE mode_in(cycles, elapsed - cycles[i][2], i + 1)

mode_from(elapsed, i) == mode_in(GHOST_MODE_CYCLES, elapsed, i)

get_ghost_mode(t) == mode_from(t, 1)

\* handle_ghost_release with the pellet thresholds passed, not reached
release_calls_late(pellets_eaten, t) ==
    {g \in GhostNames : \/ (g = "Pinky" /\ t = 60)
                        \/ (g = "Inky" /\ pellets_eaten > 30)
                        \/ (g = "Clyde" /\ pellets_eaten > 60)}

\* handle_ghost_release: the ghosts it calls release_from_house() on
release_calls(pellets_eaten, t) ==
    {g \in GhostNames : \/ (g = "Pinky" /\ t = 60)
                        \/ (g = "Inky" /\ pellets_eaten >= 30)
                        \/ (g = "Clyde" /\ pellets_eaten >= 60)}

\* handle_ghost_release
handle_ghost_release(pellets_eaten, t, gs) ==
    [g \in DOMAIN gs |->
        IF g \in release_calls(pellets_eaten, t)
        THEN release_from_house(gs[g])
        ELSE gs[g]]

\* main: for ghost in ghosts: ghost.update(pacman.x, pacman.y, current_dir),
\* from the i-th ghost on; the set of outcomes [gs, used], used counting the
\* random choices that did not take the first of the list
RECURSIVE update_ghosts(_, _, _, _, _, _)
update_ghosts(gs, L, p, i, used, budget) ==
    IF i > Len(GhostOrder) THEN {[gs |-> [g \in GhostNames |-> gs[g]], used |-> used]}
    ELSE UNION {update_ghosts([gs EXCEPT ![GhostOrder[i]] = r.gh], L, p, i + 1,
                              used + (IF r.choice > 1 THEN 1 ELSE 0), budget) :
                  r \in {o \in update(GhostOrder[i], gs[GhostOrder[i]], L, p.x, p.y,
                                      DirValue(p.dir), BlinkyPosition(gs)) :
                            o.choice <= 1 \/ used < budget}}

\* the ticks of a game
MaxTimer == 960
\* the key presses of a game
MaxPresses == 3

\* Pac-Man stands still: it has no direction, or a wall holds it on the centre
\* of its tile
AtRest(p, L) == pac_move(p, L).x = p.x /\ pac_move(p, L).y = p.y

\* the keys down in a tick: the player presses one direction key whenever
\* Pac-Man stands still, for as long as there are presses left
GameKeys == IF AtRest(pac, layout) /\ ncalls < MaxPresses
            THEN {{d} : d \in DirSet} ELSE {{}}

Init ==
    /\ layout = InitialLayout
    /\ pac = NewPacMan(PacStart.x, PacStart.y)
    /\ ghosts = [g \in GhostNames |-> NewGhost(g)]
    /\ timer = 0
    /\ mode = "SCATTER"
    /\ running = TRUE
    /\ gut = ""
    /\ ncalls = 0
    /\ nupd = 0
    /\ nrand = 0
    /\ last = [op |-> "init"]
    /\ fcount = [g \in GhostNames |-> NoCount]

\* an iteration of the loop that updates the ghosts before Pac-Man
MainTickGhostsFirst ==
    /\ running
    /\ timer < MaxTimer
    /\ \E keys \in GameKeys :
        LET t == timer + 1
            released == handle_ghost_release(pac.pellets_eaten, t, ghosts)
            new_ghost_mode == get_ghost_mode(t)
            directed == IF new_ghost_mode # mode
                        THEN set_ghost_modes(released, new_ghost_mode, mode)
                        ELSE released
        IN  \E u \in update_ghosts(directed, layout, pac, 1, 0, MaxRandom - nrand) :
              LET r == pac_update(handle_input(pac, keys), layout, u.gs, GhostOrder)
              IN  /\ timer' = t
                  /\ mode' = new_ghost_mode
                  /\ pac' = r.p
                  /\ layout' = r.L
                  /\ ghosts' = r.gs
                  /\ nrand' = nrand + u.used
                  /\ running' = (r.p.lives > 0)
                  /\ ncalls' = ncalls + Cardinality(keys)
                  /\ last' = [op |-> "main", pre |-> pac, moved |-> r.moved,
                              cell |-> get_cell(layout, pellet_cell(r.moved)[1],
                                                pellet_cell(r.moved)[2]),
                              fed |-> r.fed, mid |-> r.mid, gs |-> r.gs,
                              asked |-> handle_input(pac, keys), turned |-> r.turned,
                              found |-> u.gs, before |-> ghosts, was |-> mode,
                              released |-> released]
    /\ UNCHANGED <<gut, nupd, fcount>>

\* one iteration of the loop of main
MainTick ==
    /\ running
    /\ timer < MaxTimer
    /\ \E keys \in GameKeys :
        LET t == timer + 1
            released == handle_ghost_release(pac.pellets_eaten, t, ghosts)
            new_ghost_mode == get_ghost_mode(t)
            directed == IF new_ghost_mode # mode
                        THEN set_ghost_modes(released, new_ghost_mode, mode)
                        ELSE released
            r == pac_update(handle_input(pac, keys), layout, directed, GhostOrder)
        IN  \E u \in update_ghosts(r.gs, r.L, r.p, 1, 0, MaxRandom - nrand) :
                /\ timer' = t
                /\ mode' = new_ghost_mode
                /\ pac' = r.p
                /\ layout' = r.L
                /\ ghosts' = u.gs
                /\ nrand' = nrand + u.used
                /\ running' = (r.p.lives > 0)
                /\ ncalls' = ncalls + Cardinality(keys)
                /\ last' = [op |-> "main", pre |-> pac, moved |-> r.moved,
                            cell |-> get_cell(layout, pellet_cell(r.moved)[1],
                                              pellet_cell(r.moved)[2]),
                            fed |-> r.fed, mid |-> r.mid, gs |-> r.gs,
                            asked |-> handle_input(pac, keys), turned |-> r.turned,
                            found |-> directed, before |-> ghosts, was |-> mode,
                            released |-> released]
    /\ UNCHANGED <<gut, nupd, fcount>>

Next == MainTick

Spec == Init /\ [][Next]_vars

----------------------------------------------------------------------------
(* get_ghost_mode under the calls of tests/test_ghost_init.py: the test patches
   the cycle table and asks for the mode at timer values of its choice; here
   the timer values are asked for in order. *)

\* the timer values asked for beyond the end of the last timed entry
MaxBeyond == 5
\* the longest duration of an entry of the tables made up here
MaxDuration == 2

\* test_get_ghost_mode: mock_cycles
MockCycles == << <<"SCATTER", 7>>, <<"CHASE", 20>>, <<"SCATTER", 5>>, <<"CHASE", -1>> >>

Modes == {"SCATTER", "CHASE"}

\* the cycle tables: the shipped one, the one of the test, and every table of
\* one to three entries with short durations and a permanent last entry
CycleTables ==
    {GHOST_MODE_CYCLES, MockCycles}
    \cup {<< <<m, -1>> >> : m \in Modes}
    \cup {<< <<m1, d1>>, <<m, -1>> >> : m1 \in Modes, d1 \in 0..MaxDuration, m \in Modes}
    \cup {<< <<m1, d1>>, <<m2, d2>>, <<m, -1>> >> :
            m1 \in Modes, d1 \in 0..MaxDuration,
            m2 \in Modes, d2 \in 0..MaxDuration, m \in Modes}

\* the ticks the timed entries 1..i of a table take together
RECURSIVE TicksThrough(_, _)
TicksThrough(cycles, i) ==
    IF i = 0 THEN 0 ELSE TicksThrough(cycles, i - 1) + cycles[i][2]

InitMode ==
    /\ layout = InitialLayout
    /\ pac = NewPacMan(PacStart.x, PacStart.y)
    /\ ghosts = [g \in GhostNames |-> NewGhost(g)]
    /\ timer = 0
    /\ mode = "SCATTER"
    /\ running = TRUE
    /\ gut = ""
    /\ ncalls = 0
    /\ nupd = 0
    /\ nrand = 0
    /\ \E cycles \in CycleTables : last = [op |-> "init", cycles |-> cycles]
    /\ fcount = [g \in GhostNames |-> NoCount]

\* new_ghost_mode = get_ghost_mode(ghost_release_timer), for the next timer value
GetGhostMode ==
    /\ timer < TicksThrough(last.cycles, Len(last.cycles) - 1) + MaxBeyond
    /\ mode' = mode_in(last.cycles, timer, 1)
    /\ timer' = timer + 1
    /\ last' = [op |-> "get_ghost_mode", cycles |-> last.cycles, t |-> timer]
    /\ UNCHANGED <<layout, pac, ghosts, running, gut, ncalls, nupd, nrand, fcount>>

NextMode == GetGhostMode

SpecMode == InitMode /\ [][NextMode]_vars

----------------------------------------------------------------------------
(* handle_ghost_release under the calls of the loop of main, one per tick:
   the timer grows by one from call to call, and pellets_eaten by at most one
   (one pellet check per PacMan.update).  tests/test_ghost_init.py and
   tests/test_main.py call it with timer and pellet counts of their choice. *)

\* the calls of handle_ghost_release a run makes
MaxReleaseTicks == 63
\* the release_from_house() calls counted per ghost
MaxSignals == 2

InitRelease ==
    /\ layout = InitialLayout
    /\ pac = NewPacMan(PacStart.x, PacStart.y)
    /\ ghosts = [g \in GhostNames |-> NewGhost(g)]
    /\ timer = 0
    /\ mode = "SCATTER"
    /\ running = TRUE
    /\ gut = ""
    /\ ncalls = 0
    /\ nupd = 0
    /\ nrand = 0
    /\ last = [op |-> "init", signals |-> [g \in GhostNames |-> 0]]
    /\ fcount = [g \in GhostNames |-> NoCount]

\* main: ghost_release_timer += 1; handle_ghost_release(pacman.pellets_eaten,
\* ghost_release_timer, pinky, inky, clyde); then the PacMan.update of the tick
\* eats a pellet or none
HandleGhostRelease ==
    /\ timer < MaxReleaseTicks
    /\ timer' = timer + 1
    /\ ghosts' = handle_ghost_release(pac.pellets_eaten, timer + 1, ghosts)
    /\ last' = [op |-> "handle_ghost_release", before |-> ghosts,
                pellets |-> pac.pellets_eaten,
                signals |-> [g \in GhostNames |->
                    IF g \in release_calls(pac.pellets_eaten, timer + 1)
                       /\ last.signals[g] < MaxSignals
                    THEN last.signals[g] + 1 ELSE last.signals[g]]]
    /\ \E ate \in BOOLEAN : pac' = IF ate THEN count_pellet(pac) ELSE pac
    /\ UNCHANGED <<layout, mode, running, gut, ncalls, nupd, nrand, fcount>>

NextRelease == HandleGhostRelease

SpecRelease == InitRelease /\ [][NextRelease]_vars

----------------------------------------------------------------------------
(* The grid queries of GameMap under the calls of tests/test_game_map.py: a
   query at coordinates inside the map or beyond it. *)

\* how many tiles beyond the edges of the map the queries reach
MaxOutside == 2

Columns == (0 - MaxOutside)..(width(InitialLayout) - 1 + MaxOutside)
Rows == (0 - MaxOutside)..(height(InitialLayout) - 1 + MaxOutside)

InitMap ==
    /\ layout = InitialLayout
    /\ pac = NewPacMan(PacStart.x, PacStart.y)
    /\ ghosts = [g \in GhostNames |-> NewGhost(g)]
    /\ timer = 0
    /\ mode = "SCATTER"
    /\ running = TRUE
    /\ gut = ""
    /\ ncalls = 0
    /\ nupd = 0
    /\ nrand = 0
    /\ \E gx \in Columns, gy \in Rows : last = [op |-> "init", gx |-> gx, gy |-> gy]
    /\ fcount = [g \in GhostNames |-> NoCount]

\* game_map.get_cell(gx, gy), is_wall(gx, gy) and is_walkable(gx, gy)
QueryMap ==
    /\ last.op = "init"
    /\ last' = [op |-> "query", gx |-> last.gx, gy |-> last.gy,
                cell |-> get_cell(layout, last.gx, last.gy),
                wall |-> is_wall(layout, last.gx, last.gy),
                walkable |-> is_walkable(layout, last.gx, last.gy)]
    /\ UNCHANGED <<layout, ghosts, pac, timer, mode, running, gut, ncalls, nupd, nrand, fcount>>

NextMap == QueryMap

SpecMap == InitMap /\ [][NextMap]_vars

----------------------------------------------------------------------------
(* calculate_target of the four ghosts, called with Pac-Man, Blinky and the
   ghost itself on chosen points of the map. *)

\* the calculate_target calls of a run
MaxTargetCalls == 2

\* where Pac-Man is: the start tile, the upper left corner, the lower right one
TargetPacs == {<<9, 16>>, <<1, 1>>, <<17, 20>>}

\* how far from Pac-Man, on each axis, Clyde and Blinky are: nothing; 4.8, 6.4
\* and 8 tiles (4.8 and 6.4 make 8 tiles together); 8 tiles and a tenth of a
\* pixel; 8 tiles and a pixel
TargetGaps ==
    {0, (48 * TILE) \div 10, (64 * TILE) \div 10, 8 * TILE, 8 * TILE + PX \div 10, 8 * TILE + PX}

TargetShifts == TargetGaps \cup {0 - d : d \in TargetGaps}

\* a point of the map
OnMap(x, y) ==
    0 <= x /\ x < width(InitialLayout) * TILE /\ 0 <= y /\ y < height(InitialLayout) * TILE

InitTarget ==
    /\ layout = InitialLayout
    /\ \E t \in TargetPacs, d \in DirSet \cup {"NONE"} :
          pac = [NewPacMan(grid_to_pixel(t[1], t[2])[1], grid_to_pixel(t[1], t[2])[2])
                    EXCEPT !.dir = d]
    /\ \E dx \in TargetShifts, dy \in TargetShifts, far \in BOOLEAN,
          m \in {"SCATTER", "CHASE"} :
          /\ OnMap(pac.x + dx, pac.y + dy)
          /\ ghosts = [g \in GhostNames |->
                IF g = "Clyde"
                THEN [NewGhost(g) EXCEPT !.x = pac.x + dx, !.y = pac.y + dy, !.state = m,
                                         !.house = "ACTIVE"]
                ELSE IF g = "Blinky" /\ far
                THEN [NewGhost(g) EXCEPT !.x = pac.x + dy, !.y = pac.y + dx, !.state = m,
                                         !.house = "ACTIVE"]
                ELSE NewGhost(g)]
    /\ timer = 0
    /\ mode = "SCATTER"
    /\ running = TRUE
    /\ gut = ""
    /\ ncalls = 0
    /\ nupd = 0
    /\ nrand = 0
    /\ \E ref \in BOOLEAN : last = [op |-> "init", ref |-> ref]
    /\ fcount = [g \in GhostNames |-> NoCount]

\* ghost.calculate_target(pacman_x, pacman_y, pacman_direction); Inky was built
\* with a Blinky or with none
CalculateTarget ==
    /\ nupd < MaxTargetCalls
    /\ \E g \in GhostNames :
          last' = [op |-> "calculate_target", g |-> g, ref |-> last.ref,
                   target |-> calculate_target(g, ghosts[g], layout, pac.x, pac.y,
                                  DirValue(pac.dir),
                                  IF last.ref THEN BlinkyPosition(ghosts) ELSE <<>>)]
    /\ nupd' = nupd + 1
    /\ UNCHANGED <<layout, ghosts, pac, timer, mode, running, gut, ncalls, nrand, fcount>>

NextTarget == CalculateTarget

SpecTarget == InitTarget /\ [][NextTarget]_vars

----------------------------------------------------------------------------
(* An ACTIVE ghost and Pac-Man stepped from chosen places of the maze, as
   tests/test_ghost.py and tests/test_pacman.py place them (position,
   direction, mode) before they call update(). *)

\* the update() calls a run of steps makes
MaxSteps == 3

\* the tiles a ghost is placed on: the crossing at (4, 4), the corner at (1, 1),
\* the house exit, the crossing of the tunnel row, the dead end inside the house
\* and the two mouths of the tunnel
StepTiles == {<<4, 4>>, <<1, 1>>, <<9, 8>>, <<4, 10>>, <<8, 10>>, <<0, 10>>, <<18, 10>>}

\* how far before the centre of its tile, along its heading, a ghost is placed
StepOffsets == {0, 150, 200}

\* a ghost heads d on tile t after entering it from behind, or after a
\* reversal on its way out of it
CameFrom(t, d) == is_walkable(InitialLayout, t[1] - DirValue(d)[1], t[2] - DirValue(d)[2])
GoesTo(t, d) == is_walkable(InitialLayout, t[1] + DirValue(d)[1], t[2] + DirValue(d)[2])

StepPlaces ==
    {[x |-> grid_to_pixel(t[1], t[2])[1] - k * DirValue(d)[1],
      y |-> grid_to_pixel(t[1], t[2])[2] - k * DirValue(d)[2], dir |-> d] :
        t \in StepTiles, d \in DirSet, k \in StepOffsets}

\* ... kept to the places a ghost comes to: before the centre only when it
\* entered from behind
StepStarts ==
    {s \in StepPlaces :
        LET t == to_grid(s.x, s.y)
            c == grid_to_pixel(t[1], t[2])
        IN  IF s.x = c[1] /\ s.y = c[2] THEN CameFrom(t, s.dir) \/ GoesTo(t, s.dir)
            ELSE CameFrom(t, s.dir)}
    \cup {[x |-> PX \div 2, y |-> grid_to_pixel(0, TUNNEL_ROW)[2], dir |-> "LEFT"],
          [x |-> width(InitialLayout) * TILE - PX \div 2,
           y |-> grid_to_pixel(0, TUNNEL_ROW)[2], dir |-> "RIGHT"]}

\* Pac-Man of a run of steps: as main places it; on (1, 1) heading left and on
\* (8, 8) heading right, both on a diagonal of the crossing at (4, 4); at x = 0
\* of the tunnel row heading left, as test_tunnel_wrapping places it; and 3
\* pixels from the right edge of the map heading right
StepPacs ==
    {NewPacMan(PacStart.x, PacStart.y),
     [NewPacMan(grid_to_pixel(1, 1)[1], grid_to_pixel(1, 1)[2]) EXCEPT !.dir = "LEFT"],
     [NewPacMan(grid_to_pixel(8, 8)[1], grid_to_pixel(8, 8)[2]) EXCEPT !.dir = "RIGHT"],
     [NewPacMan(0, grid_to_pixel(0, TUNNEL_ROW)[2]) EXCEPT !.dir = "LEFT"],
     [NewPacMan(width(InitialLayout) * TILE - 3 * PX, grid_to_pixel(0, TUNNEL_ROW)[2])
         EXCEPT !.dir = "RIGHT"]}

InitStep ==
    /\ layout = InitialLayout
    /\ pac \in StepPacs
    /\ timer = 0
    /\ mode = "SCATTER"
    /\ running = TRUE
    /\ gut \in GhostNames
    /\ \E s \in StepStarts :
          \E gh \in InModes([NewGhost(gut) EXCEPT !.x = s.x, !.y = s.y, !.dir = s.dir,
                                                  !.house = "ACTIVE"], TRUE, TRUE) :
              ghosts = [g \in GhostNames |-> IF g = gut THEN gh ELSE NewGhost(g)]
    /\ ncalls = 0
    /\ nupd = 0
    /\ nrand = 0
    /\ last = [op |-> "init"]
    /\ fcount = [g \in GhostNames |-> NoCount]

\* ghost.update(pacman.x, pacman.y, current_dir) of the placed ghost
StepGhost ==
    /\ nupd < MaxSteps
    /\ \E r \in update(gut, ghosts[gut], layout, pac.x, pac.y, DirValue(pac.dir),
                       BlinkyPosition(ghosts)) :
        /\ Drawn(r)
        /\ nrand' = nrand + RandomUsed(r)
        /\ ghosts' = [ghosts EXCEPT ![gut] = r.gh]
        /\ last' = [op |-> "update", g |-> gut, pre |-> ghosts[gut], trace |-> r.trace,
                    px |-> pac.x, py |-> pac.y, pd |-> DirValue(pac.dir),
                    blinky |-> BlinkyPosition(ghosts),
                    could |-> {o.gh.dir : o \in update(gut, ghosts[gut], layout, pac.x, pac.y,
                                                      DirValue(pac.dir),
                                                      BlinkyPosition(ghosts))}]
    /\ nupd' = nupd + 1
    /\ UNCHANGED <<layout, pac, timer, mode, running, gut, ncalls, fcount>>

\* pacman.update(ghosts) with no key down
StepPac ==
    /\ nupd < MaxSteps
    /\ LET r == pac_update(pac, layout, ghosts, GhostOrder)
       IN  /\ pac' = r.p
           /\ layout' = r.L
           /\ ghosts' = r.gs
           /\ last' = [op |-> "pacman.update", pre |-> pac, turned |-> r.turned,
                       moved |-> r.moved]
    /\ nupd' = nupd + 1
    /\ UNCHANGED <<timer, mode, running, gut, ncalls, nrand, fcount>>

\* main: new_ghost_mode != current_ghost_mode: set_ghost_modes(ghosts,
\* new_ghost_mode, current_ghost_mode)
StepBroadcast ==
    /\ nupd < MaxSteps
    /\ \E m \in {"SCATTER", "CHASE"} :
          /\ m # mode
          /\ mode' = m
          /\ ghosts' = set_ghost_modes(ghosts, m, mode)
          /\ last' = [op |-> "set_ghost_modes", g |-> gut, pre |-> ghosts[gut], trace |-> {}]
    /\ nupd' = nupd + 1
    /\ UNCHANGED <<layout, pac, timer, running, gut, ncalls, nrand, fcount>>

NextStep == StepGhost \/ StepPac \/ StepBroadcast

SpecStep == InitStep /\ [][NextStep]_vars

----------------------------------------------------------------------------
(* A ghost on its way out of the house: it stands on its spawn point, EXITING
   (released by the Director, or respawned), and update() is called until it
   is ACTIVE, while Pac-Man's update frightens it or eats it on the way. *)

\* the start_frightened() and get_eaten() calls made on the way out
MaxExitCalls == 2

\* what is left of the countdown of a ghost that was frightened in the house
\* some updates before its release
ExitCountdowns == {FRIGHTENED_FRAMES, 40, 5}

\* the ghost as release_from_house() leaves it (heading Right, or Left when it
\* was frightened in the house) and as _respawn_in_house() leaves it
ExitStarts(g) ==
    {[NewGhost(g) EXCEPT !.house = "EXITING", !.state = m] : m \in {"SCATTER", "CHASE"}}
    \cup {[NewGhost(g) EXCEPT !.house = "EXITING", !.state = "FRIGHTENED", !.dir = "LEFT",
                              !.speed = FRIGHTENED_SPEED, !.ftimer = c] : c \in ExitCountdowns}
    \cup {respawn_in_house(g, NewGhost(g))}

InitExit ==
    /\ layout = InitialLayout
    /\ pac = NewPacMan(PacStart.x, PacStart.y)
    /\ timer = 0
    /\ mode = "SCATTER"
    /\ running = TRUE
    /\ gut \in GhostNames
    /\ \E s \in ExitStarts(gut) :
          ghosts = [g \in GhostNames |-> IF g = gut THEN s ELSE NewGhost(g)]
    /\ ncalls = 0
    /\ nupd = 0
    /\ nrand = 0
    /\ last = [op |-> "init"]
    /\ fcount = [g \in GhostNames |-> NoCount]

ExitCall(op, after) ==
    /\ ncalls < MaxExitCalls
    /\ ghosts[gut].house = "EXITING"
    /\ ghosts' = [ghosts EXCEPT ![gut] = after]
    /\ last' = [op |-> op, g |-> gut, pre |-> ghosts[gut], trace |-> {}]
    /\ ncalls' = ncalls + 1
    /\ UNCHANGED <<layout, pac, timer, mode, running, gut, nupd, nrand, fcount>>

\* PacMan._check_pellet_collision: ghost.start_frightened()
ExitFrightened == ExitCall("start_frightened", start_frightened(ghosts[gut]))

\* PacMan._check_ghost_collisions: ghost.get_eaten() of a Frightened ghost
ExitEaten ==
    /\ is_frightened(ghosts[gut])
    /\ ExitCall("get_eaten", get_eaten(ghosts[gut]))

\* ghost.update() of the ghost on its way out
ExitUpdate ==
    /\ ghosts[gut].house = "EXITING"
    /\ \E r \in update(gut, ghosts[gut], layout, pac.x, pac.y, DirValue(pac.dir),
                       BlinkyPosition(ghosts)) :
        /\ ghosts' = [ghosts EXCEPT ![gut] = r.gh]
        /\ last' = [op |-> "update", g |-> gut, pre |-> ghosts[gut], trace |-> r.trace]
    /\ UNCHANGED <<layout, pac, timer, mode, running, gut, ncalls, nupd, nrand, fcount>>

NextExit == ExitFrightened \/ ExitEaten \/ ExitUpdate

SpecExit == InitExit /\ [][NextExit]_vars

\* main calls ghost.update() of every ghost in every tick
SpecExitLive == SpecExit /\ WF_vars(ExitUpdate)

----------------------------------------------------------------------------
(* An eaten ghost on its way home: a placed ghost, ACTIVE or on its way out of
   the house, has just been eaten (get_eaten()), and update() is called until
   it has respawned and left the house again. *)

\* the ghost as get_eaten() leaves it on one of the places of StepStarts, or
\* on its spawn point on its way out
ReturnStarts(g) ==
    {get_eaten([NewGhost(g) EXCEPT !.x = s.x, !.y = s.y, !.dir = s.dir, !.house = "ACTIVE",
                                   !.state = "FRIGHTENED", !.speed = FRIGHTENED_SPEED,
                                   !.ftimer = FRIGHTENED_FRAMES - 1]) : s \in StepStarts}
    \cup {get_eaten([NewGhost(g) EXCEPT !.house = "EXITING", !.state = "FRIGHTENED",
                                        !.speed = FRIGHTENED_SPEED, !.dir = "LEFT",
                                        !.ftimer = FRIGHTENED_FRAMES - 1])}

InitReturn ==
    /\ layout = InitialLayout
    /\ pac = NewPacMan(PacStart.x, PacStart.y)
    /\ timer = 0
    /\ mode = "SCATTER"
    /\ running = TRUE
    /\ gut \in GhostNames
    /\ \E s \in ReturnStarts(gut) :
          ghosts = [g \in GhostNames |-> IF g = gut THEN s ELSE NewGhost(g)]
    /\ ncalls = 0
    /\ nupd = 0
    /\ nrand = 0
    /\ last = [op |-> "get_eaten"]
    /\ fcount = [g \in GhostNames |-> NoCount]

\* ghost.update() of the eaten ghost, and of the respawned ghost on its way out
ReturnUpdate ==
    /\ is_eaten(ghosts[gut]) \/ ghosts[gut].house = "EXITING"
    /\ \E r \in update(gut, ghosts[gut], layout, pac.x, pac.y, DirValue(pac.dir),
                       BlinkyPosition(ghosts)) :
        /\ ghosts' = [ghosts EXCEPT ![gut] = r.gh]
        /\ last' = [op |-> "update", g |-> gut, pre |-> ghosts[gut], trace |-> r.trace]
    /\ UNCHANGED <<layout, pac, timer, mode, running, gut, ncalls, nupd, nrand, fcount>>

\* main calls ghost.update() of every ghost in every tick
SpecReturn == InitReturn /\ [][ReturnUpdate]_vars /\ WF_vars(ReturnUpdate)

----
(* Claims on the Ghost object (SpecGhost) *)

Before == last.pre
After == ghosts[last.g]

\* Before, as close to the house exit as the respawn asks for
BeforeNearExit ==
    SqLess(SqAdd(Sq(Before.x - HouseExit.x), Sq(Before.y - HouseExit.y)), Sq(30 * PX))

\* C1: a ghost that start_frightened() turned Frightened, with no get_eaten() or
\* return_to_house() since, is Frightened after each of the next 599 update()
\* calls, and after the 600th it is not Frightened and its speed is GHOST_SPEED;
\* in every house state.
C1_FrightenedLasts600Updates ==
    \A g \in GhostNames :
        /\ (fcount[g] >= 0 /\ fcount[g] <= 599) => ghosts[g].state = "FRIGHTENED"
        /\ fcount[g] = 600 => (ghosts[g].state # "FRIGHTENED" /\ ghosts[g].speed = 190)

C1_Witness ==
    /\ fcount[gut] = 600
    /\ last.op = "update"
    /\ Before.state = "FRIGHTENED"
    /\ After.house = "ACTIVE"
    /\ After.state # "FRIGHTENED"

C4_GetEaten ==
    last.op = "get_eaten" =>
        /\ After.state = "EATEN"
        /\ After.speed = 4 * PX
        /\ After.x = Before.x /\ After.y = Before.y
        /\ After.dir = Before.dir
        /\ After.house = Before.house

C4_Witness ==
    /\ last.op = "get_eaten"
    /\ Before.state = "FRIGHTENED"
    /\ Before.house = "EXITING"
    /\ After.state = "EATEN"

\* C5: update() on an Eaten ghost closer than one tile to the house exit respawns
\* it in that update (position its spawn position, mode Scatter, speed
\* GHOST_SPEED, house state Exiting, no direction choice and no movement); an
\* Eaten ghost at one tile or more does not respawn.
C5_EatenRespawn ==
    (last.op = "update" /\ Before.state = "EATEN") =>
        IF BeforeNearExit
        THEN /\ After.x = Spawn(last.g).x /\ After.y = Spawn(last.g).y
             /\ After.state = "SCATTER"
             /\ After.speed = 190
             /\ After.house = "EXITING"
             /\ last.trace = {"_respawn_in_house"}
        ELSE /\ After.state = "EATEN"
             /\ After.house = Before.house
             /\ "_respawn_in_house" \notin last.trace

C5_Witness ==
    /\ last.op = "update"
    /\ Before.state = "EATEN"
    /\ Before.house = "ACTIVE"
    /\ nupd > 1
    /\ After.house = "EXITING"
    /\ After.state = "SCATTER"

\* C6: update() leaves the position of a ghost whose house state is InHouse as
\* it was, in every mode, and computes no target, chooses no direction and moves
\* nothing for it.
C6_InHouseStays ==
    (last.op = "update" /\ Before.house = "IN_HOUSE") =>
        /\ After.x = Before.x /\ After.y = Before.y
        /\ After.target = Before.target
        /\ last.trace \cap {"calculate_target", "_choose_direction", "_move", "_exit_house"} = {}

C6_Witness ==
    /\ last.op = "update"
    /\ Before.house = "IN_HOUSE"
    /\ Before.state = "FRIGHTENED"
    /\ After.house = "IN_HOUSE"


----------------------------------------------------------------------------
(* Claims on the PacMan object (SpecPac) *)

\* what _check_ghost_collisions found: Pac-Man and the ghosts after the move,
\* the pellet check and the two timers of the same update
Mid == last.mid

\* the ghosts within the hitbox distance (24 pixels) of Pac-Man at the check
InRange == {g \in GhostNames :
              DistLess(Mid.p.x, Mid.p.y, Mid.gs[g].x, Mid.gs[g].y, 24 * PX)}
FrightenedHit == {g \in InRange : Mid.gs[g].state = "FRIGHTENED"}
DangerousHit == {g \in InRange : /\ Mid.gs[g].state \notin {"FRIGHTENED", "EATEN"}
                                 /\ Mid.gs[g].house # "IN_HOUSE"}

\* C7: a Frightened ghost the collision check finds within the hitbox distance
\* becomes Eaten (at the Eaten speed), the score grows by exactly 200 for each
\* such ghost, and when no dangerous ghost is hit in the same check the lives
\* are what they were.
C7_FrightenedCollision ==
    last.op = "pacman.update" =>
        /\ \A g \in FrightenedHit :
              ghosts[g] = [Mid.gs[g] EXCEPT !.state = "EATEN", !.speed = 400]
        /\ pac.score = Mid.p.score + 200 * Cardinality(FrightenedHit)
        /\ DangerousHit = {} => pac.lives = Mid.p.lives

C7_Witness ==
    /\ last.op = "pacman.update"
    /\ FrightenedHit # {}
    /\ DangerousHit = {}
    /\ pac.score = Mid.p.score + 200
    /\ pac.lives = 3

\* C8: a ghost that is neither Frightened nor Eaten nor InHouse and is found
\* within the hitbox distance costs exactly one life in that update and is
\* left as it was, and when no Frightened ghost is hit in the same check the
\* score is what it was.
C8_DangerousCollision ==
    last.op = "pacman.update" =>
        /\ pac.lives = Mid.p.lives - Cardinality(DangerousHit)
        /\ \A g \in DangerousHit : ghosts[g] = Mid.gs[g]
        /\ FrightenedHit = {} => pac.score = Mid.p.score

C8_Witness ==
    /\ last.op = "pacman.update"
    /\ Cardinality(DangerousHit) = 1
    /\ FrightenedHit = {}
    /\ pac.lives = last.pre.lives - 1
    /\ pac.score = last.pre.score

\* C9: a ghost whose house state is InHouse is left as it was by the
\* collision check and changes neither the score nor the lives, even when it
\* is Frightened and within the hitbox distance.
C9_InHouseNeverCollides ==
    last.op = "pacman.update" =>
        /\ \A g \in GhostNames : Mid.gs[g].house = "IN_HOUSE" => ghosts[g] = Mid.gs[g]
        /\ pac.score = Mid.p.score
              + 200 * Cardinality({g \in FrightenedHit : Mid.gs[g].house # "IN_HOUSE"})
        /\ pac.lives = Mid.p.lives - Cardinality(DangerousHit)

\* C10: an update that leaves Pac-Man within 5 pixels of the centre of a cell
\* holding 2 adds exactly 10 for the pellet and sets the cell to 0; an update
\* over a cell holding 0 adds nothing for it; the 10 points are given for a
\* cell holding 2 only, and no cell ever turns back to 2.
C10_PelletScoredOnce ==
    [][ last'.op = "pacman.update" =>
          LET m == last'.moved
              gx == m.x \div TILE
              gy == m.y \div TILE
              centred == /\ Abs(m.x - (gx * TILE + TILE \div 2)) < 5 * PX
                         /\ Abs(m.y - (gy * TILE + TILE \div 2)) < 5 * PX
              points == last'.fed.score - m.score
          IN  /\ (centred /\ layout[gy + 1][gx + 1] = 2) =>
                    (points = 10 /\ layout'[gy + 1][gx + 1] = 0)
              /\ layout[gy + 1][gx + 1] = 0 => points = 0
              /\ points = 10 => (centred /\ layout[gy + 1][gx + 1] = 2)
              /\ \A y \in 1..Len(layout) : \A x \in 1..Len(layout[y]) :
                    layout[y][x] # 2 => layout'[y][x] # 2 ]_vars

\* Pac-Man is still within the tolerance of the centre of a cell whose pellet
\* an earlier update of the run took
C10_Witness ==
    /\ last.op = "pacman.update"
    /\ last.cell = 0
    /\ at_pellet_center(last.moved)
    /\ InitialLayout[pellet_cell(last.moved)[2] + 1][pellet_cell(last.moved)[1] + 1] = 2
    /\ pac.score = 10

----------------------------------------------------------------------------
(* Claims on the game loop (Spec) *)

\* the ghosts whose frightened countdown reached zero in the tick just made:
\* ghost.update found them Frightened and left them in another mode
Expired == {g \in GhostNames :
               last.gs[g].state = "FRIGHTENED" /\ ghosts[g].state # "FRIGHTENED"}

\* C2: a ghost whose frightened countdown reaches zero is in the mode the
\* director gives for the current timer (get_ghost_mode), so in Chase when
\* the countdown ends during a Chase phase.
C2_ExpiryTakesDirectorMode ==
    last.op = "main" =>
        \A g \in Expired : ghosts[g].state = get_ghost_mode(timer)

----------------------------------------------------------------------------
(* Claims on the power pellet, the director and the turns of Pac-Man *)

\* the update just made left Pac-Man within 5 pixels of the centre of a cell
\* that held a power pellet
AtePowerPellet ==
    /\ last.op = "pacman.update"
    /\ last.cell = 3
    /\ Abs(last.moved.x - ((last.moved.x \div TILE) * TILE + TILE \div 2)) < 5 * PX
    /\ Abs(last.moved.y - ((last.moved.y \div TILE) * TILE + TILE \div 2)) < 5 * PX

PowerPelletPaid ==
    /\ last.fed.score = last.moved.score + 50
    /\ layout[(last.moved.y \div TILE) + 1][(last.moved.x \div TILE) + 1] = 0
    /\ last.fed.powered_up
    /\ last.fed.power_up_timer = 600

\* C11 as stated: eating a power pellet adds exactly 50, opens the cell,
\* powers Pac-Man up with the timer at 600, and leaves every ghost Frightened
\* at the end of the collection step.
C11_AsStated ==
    AtePowerPellet =>
        /\ PowerPelletPaid
        /\ \A g \in GhostNames : Mid.gs[g].state = "FRIGHTENED"

\* C11 as amended: eating a power pellet adds exactly 50, opens the cell,
\* powers Pac-Man up with the timer at 600, and at the end of the collection
\* step every ghost that was not Eaten is Frightened, while an Eaten ghost is
\* as it was.
C11_PowerPellet ==
    AtePowerPellet =>
        /\ PowerPelletPaid
        /\ \A g \in GhostNames :
              IF last.found[g].state = "EATEN"
              THEN Mid.gs[g] = last.found[g]
              ELSE Mid.gs[g].state = "FRIGHTENED"

C11_Witness ==
    /\ AtePowerPellet
    /\ last.fed.score = last.pre.score + 50
    /\ \E g \in GhostNames : last.found[g].state = "EATEN" /\ Mid.gs[g].state = "EATEN"
    /\ \E g \in GhostNames : last.found[g].state = "SCATTER" /\ Mid.gs[g].state = "FRIGHTENED"

\* C12: in a tick where the scheduled mode differs from that of the tick
\* before, the director sets each ghost that is not Frightened, not Eaten and
\* not InHouse to the new mode and reverses its direction once, changing
\* nothing else, and leaves the other ghosts as they were; in a tick without
\* a transition the director changes no ghost.
C12_ModeTransition ==
    last.op = "main" =>
        \A g \in GhostNames :
            LET b == last.released[g]
                a == last.found[g]
            IN  IF /\ get_ghost_mode(timer) # get_ghost_mode(timer - 1)
                   /\ b.state \notin {"FRIGHTENED", "EATEN"}
                   /\ b.house # "IN_HOUSE"
                THEN a = [b EXCEPT !.state = get_ghost_mode(timer),
                                   !.dir = CASE b.dir = "UP" -> "DOWN"
                                             [] b.dir = "DOWN" -> "UP"
                                             [] b.dir = "LEFT" -> "RIGHT"
                                             [] b.dir = "RIGHT" -> "LEFT"
                                             [] OTHER -> b.dir]
                ELSE a = b

\* the tick of the first transition, with Pinky roaming in Scatter and turned
\* to Chase, and Blinky in the house
C12_Witness ==
    /\ last.op = "main"
    /\ timer = 420
    /\ last.released["Pinky"].house = "ACTIVE"
    /\ last.released["Pinky"].state = "SCATTER"
    /\ last.found["Pinky"].state = "CHASE"
    /\ last.found["Pinky"].dir # last.released["Pinky"].dir
    /\ last.released["Blinky"].house = "IN_HOUSE"

\* the mode of the shipped table by its intervals
ShippedMode(t) ==
    IF t < 420 THEN "SCATTER"
    ELSE IF t < 1620 THEN "CHASE"
    ELSE IF t < 2040 THEN "SCATTER"
    ELSE IF t < 3240 THEN "CHASE"
    ELSE IF t < 3540 THEN "SCATTER"
    ELSE IF t < 4740 THEN "CHASE"
    ELSE IF t < 5040 THEN "SCATTER"
    ELSE "CHASE"

\* C13: for a cycle table whose last entry is permanent, get_ghost_mode(t) is
\* the mode of the first entry i with t smaller than the sum of the durations
\* of the entries up to i, and the mode of the permanent last entry when there
\* is none; for the shipped table that is SCATTER on [0,420), CHASE on
\* [420,1620), SCATTER on [1620,2040), CHASE on [2040,3240), SCATTER on
\* [3240,3540), CHASE on [3540,4740), SCATTER on [4740,5040), CHASE from 5040.
C13_GetGhostMode ==
    last.op = "get_ghost_mode" =>
        LET cycles == last.cycles
            n == Len(cycles)
            under == {i \in 1..(n - 1) : last.t < TicksThrough(cycles, i)}
        IN  /\ under = {} => mode = cycles[n][1]
            /\ under # {} =>
                  mode = cycles[CHOOSE i \in under : \A j \in under : i <= j][1]
            /\ cycles = GHOST_MODE_CYCLES => mode = ShippedMode(last.t)

\* the shipped table asked at the first tick of its permanent entry
C13_Witness ==
    /\ last.op = "get_ghost_mode"
    /\ last.cycles = GHOST_MODE_CYCLES
    /\ last.t = 5040
    /\ mode = "CHASE"

\* the call just made left ghost g as it was / turned it from InHouse to Exiting
Untouched(g) == ghosts[g] = last.before[g]
SentOut(g) ==
    IF last.before[g].house = "IN_HOUSE"
    THEN ghosts[g] = [last.before[g] EXCEPT !.house = "EXITING"]
    ELSE ghosts[g] = last.before[g]

\* C14: handle_ghost_release leaves Pinky alone at a timer below 60, Inky
\* while pellets_eaten < 30 and Clyde while pellets_eaten < 60; it releases
\* Pinky at timer = 60, Inky once pellets_eaten >= 30 and Clyde once
\* pellets_eaten >= 60, a release turning an InHouse ghost into Exiting and
\* changing nothing else; Blinky it never touches.
C14_GhostRelease ==
    last.op = "handle_ghost_release" =>
        /\ timer < 60 => Untouched("Pinky")
        /\ timer = 60 => SentOut("Pinky")
        /\ last.pellets < 30 => Untouched("Inky")
        /\ last.pellets >= 30 => SentOut("Inky")
        /\ last.pellets < 60 => Untouched("Clyde")
        /\ last.pellets >= 60 => SentOut("Clyde")
        /\ Untouched("Blinky")

\* the call at timer 61 with 60 pellets eaten: Clyde leaves the house, Pinky
\* left it at timer 60 and Inky at 30 pellets
C14_Witness ==
    /\ last.op = "handle_ghost_release"
    /\ timer = 61
    /\ last.pellets = 60
    /\ last.before["Clyde"].house = "IN_HOUSE" /\ ghosts["Clyde"].house = "EXITING"
    /\ last.before["Pinky"].house = "EXITING"
    /\ last.before["Inky"].house = "EXITING"

\* C15: over a run of the loop, release_from_house() is called on each of
\* Pinky, Inky and Clyde at most once, however long its threshold condition
\* stays true.
C15_ReleasedOnce ==
    last.op = "handle_ghost_release" =>
        \A g \in {"Pinky", "Inky", "Clyde"} : last.signals[g] <= 1

\* C16: Blinky starts the game free: from the first tick on its house state
\* is Active, and from its first update() it chooses directions and moves.
C16_BlinkyStartsFree ==
    last.op = "main" =>
        /\ ghosts["Blinky"].house = "ACTIVE"
        /\ timer = 1 => <<ghosts["Blinky"].x, ghosts["Blinky"].y>>
                            # <<Spawn("Blinky").x, Spawn("Blinky").y>>

\* the pairs of a direction and its exact opposite
Reversals == {<<"UP", "DOWN">>, <<"DOWN", "UP">>, <<"LEFT", "RIGHT">>, <<"RIGHT", "LEFT">>}

Horizontal == {"LEFT", "RIGHT"}
Vertical == {"UP", "DOWN"}
AskedPerpendicular ==
    /\ last.op = "pacman.update"
    /\ \/ (last.asked.dir \in Horizontal /\ last.asked.next_dir \in Vertical)
       \/ (last.asked.dir \in Vertical /\ last.asked.next_dir \in Horizontal)

\* the tile Pac-Man is on at the request, its centre, and the tile asked for
AskedTile == <<last.asked.x \div TILE, last.asked.y \div TILE>>
AskedCentre == <<AskedTile[1] * TILE + TILE \div 2, AskedTile[2] * TILE + TILE \div 2>>
AskedNear ==
    /\ Abs(last.asked.x - AskedCentre[1]) < 8 * PX
    /\ Abs(last.asked.y - AskedCentre[2]) < 8 * PX
AskedOpen ==
    LET gx == AskedTile[1] + (CASE last.asked.next_dir = "LEFT" -> -1
                                [] last.asked.next_dir = "RIGHT" -> 1
                                [] OTHER -> 0)
        gy == AskedTile[2] + (CASE last.asked.next_dir = "UP" -> -1
                                [] last.asked.next_dir = "DOWN" -> 1
                                [] OTHER -> 0)
    IN  /\ 0 <= gx /\ gx < Len(layout[1])
        /\ 0 <= gy /\ gy < Len(layout)
        /\ layout[gy + 1][gx + 1] # 1

\* C18: Pac-Man turns onto the perpendicular axis exactly when it is within
\* 8 pixels of the centre of its tile on both axes and the tile asked for is
\* walkable; the turn sets the coordinate of the axis it leaves to the tile
\* centre (x when it moved horizontally, y when vertically), keeps the other
\* coordinate, and clears the buffer; otherwise nothing changes.
C18_PerpendicularTurn ==
    AskedPerpendicular =>
        IF AskedNear /\ AskedOpen
        THEN IF last.asked.dir \in Horizontal
             THEN last.turned = [last.asked EXCEPT !.x = AskedCentre[1],
                                    !.dir = last.asked.next_dir, !.next_dir = "NONE"]
             ELSE last.turned = [last.asked EXCEPT !.y = AskedCentre[2],
                                    !.dir = last.asked.next_dir, !.next_dir = "NONE"]
        ELSE last.turned = last.asked

\* Pac-Man corners: it turns off the centre line and is set onto it
C18_Witness ==
    /\ AskedPerpendicular
    /\ last.asked.dir \in Horizontal
    /\ last.asked.x # AskedCentre[1]
    /\ last.turned.x = AskedCentre[1]
    /\ last.turned.y = last.asked.y
    /\ last.turned.dir = last.asked.next_dir
    /\ last.turned.next_dir = "NONE"

\* C19: a requested direction whose destination tile is not walkable is
\* rejected: _try_change_direction leaves Pac-Man's direction and position as
\* they were and keeps the request in the buffer, whatever the current
\* direction, the stopped state included.
C19_BlockedRequestWaits ==
    (last.op = "pacman.update" /\ last.asked.next_dir # "NONE" /\ ~AskedOpen) =>
        last.turned = last.asked


----------------------------------------------------------------------------
(* Claims on the walls around Pac-Man *)

\* the tile next to Pac-Man's in its direction of travel, wrapped at the tunnel
TileAhead(p) ==
    LET gx == to_grid(p.x, p.y)[1] + DirValue(p.dir)[1]
    IN  <<IF gx < 0 THEN width(layout) - 1 ELSE IF gx >= width(layout) THEN 0 ELSE gx,
          to_grid(p.x, p.y)[2] + DirValue(p.dir)[2]>>

\* the centre of the tile Pac-Man is in
TileCentre(p) == grid_to_pixel(to_grid(p.x, p.y)[1], to_grid(p.x, p.y)[2])

\* one step of Pac-Man's speed from where it is would take it past that centre
PassesCentre(p) ==
    LET step == (p.speed * p.mult) \div 100
    IN  \/ p.dir = "RIGHT" /\ p.x + step > TileCentre(p)[1]
        \/ p.dir = "LEFT" /\ p.x - step < TileCentre(p)[1]
        \/ p.dir = "DOWN" /\ p.y + step > TileCentre(p)[2]
        \/ p.dir = "UP" /\ p.y - step < TileCentre(p)[2]

\* _move met a wall: the tile ahead is not walkable and the step passes the centre
WallAhead ==
    /\ last.op = "pacman.update"
    /\ last.turned.dir # "NONE"
    /\ ~is_walkable(layout, TileAhead(last.turned)[1], TileAhead(last.turned)[2])
    /\ PassesCentre(last.turned)

\* C20: when the tile ahead of Pac-Man is not walkable and the candidate
\* position would pass the centre of its tile, _move puts Pac-Man exactly on
\* that centre; and after every update() the tile that contains Pac-Man is
\* walkable.
C20_NoWallClipping ==
    /\ WallAhead =>
           /\ last.moved.x = TileCentre(last.turned)[1]
           /\ last.moved.y = TileCentre(last.turned)[2]
    /\ is_walkable(layout, to_grid(pac.x, pac.y)[1], to_grid(pac.x, pac.y)[2])

\* Pac-Man came up the corridor from (2, 18) and was stopped on the centre of
\* (2, 16), under the wall at (2, 15)
C20_Witness ==
    /\ WallAhead
    /\ last.pre.dir = "UP" /\ last.turned.dir = "UP"
    /\ to_grid(pac.x, pac.y) = <<2, 16>>
    /\ pac.y = grid_to_pixel(2, 16)[2]
    /\ is_wall(layout, 2, 15)
    /\ nupd >= 5

----------------------------------------------------------------------------
(* Claims on the steps of a placed ghost and of Pac-Man (SpecStep), on the
   grid queries and on the targets *)

\* the width of the map in units
MapWidth == width(layout) * TILE

\* the ghost update() of the last step reached _move
GhostMoved == last.op = "update" /\ "_move" \in last.trace

\* the speed that _move applied: the speed and the heading the update left the
\* ghost with, slowed down on the tunnel row
GhostStep ==
    IF is_in_tunnel(last.pre) THEN TunnelSpeed(ghosts[last.g].speed) ELSE ghosts[last.g].speed

\* the candidate x of the last _move of the ghost, and of Pac-Man
GhostCandidateX == last.pre.x + DirValue(ghosts[last.g].dir)[1] * GhostStep
PacCandidateX ==
    last.turned.x + DirValue(last.turned.dir)[1] * ((last.turned.speed * last.turned.mult) \div 100)

\* C21: horizontal motion wraps modulo the width of the map in pixels: after
\* every _move of Pac-Man or of an Active ghost x lies in [0, W), a candidate
\* x >= W has become x - W and a candidate x < 0 has become x + W (Pac-Man
\* moving left from x = 0 at speed 2 ends at W - 2).
C21_TunnelWrap ==
    /\ 0 <= pac.x /\ pac.x < MapWidth
    /\ \A g \in GhostNames : 0 <= ghosts[g].x /\ ghosts[g].x < MapWidth
    /\ GhostMoved =>
          /\ GhostCandidateX < 0 => ghosts[last.g].x = GhostCandidateX + MapWidth
          /\ GhostCandidateX >= MapWidth => ghosts[last.g].x = GhostCandidateX - MapWidth
    /\ last.op = "pacman.update" =>
          /\ PacCandidateX < 0 => last.moved.x = PacCandidateX + MapWidth
          /\ PacCandidateX >= MapWidth => last.moved.x = PacCandidateX - MapWidth
          /\ (last.turned.x = 0 /\ last.turned.dir = "LEFT") => pac.x = MapWidth - 2 * PX

\* Pac-Man went from x = 0 to W - 2 and then a ghost left the map through the
\* left mouth of the tunnel and came back in through the right one
C21_Witness ==
    /\ GhostMoved
    /\ GhostCandidateX < 0
    /\ ghosts[last.g].x > MapWidth - TILE
    /\ pac.x = MapWidth - 2 * PX

\* the query of the last step fell outside the map
Outside == ~InBounds(layout, last.gx, last.gy)

\* the column of the map a column beyond it wraps to
WrappedColumn(gx) == gx % width(layout)

AheadOfPac ==
    <<pac.x + 2 * TILE * DirValue(pac.dir)[1], pac.y + 2 * TILE * DirValue(pac.dir)[2]>>

\* C23: Inky's target is the reflection of the point 2 tiles ahead of Pac-Man
\* through Blinky's position, target = blinky + 2 * (pacman + 2 * TILE_SIZE * dir
\* - blinky) on each axis: the point ahead lies halfway between Blinky and the
\* target; with no Blinky reference the target is Pac-Man's position.
C23_InkyTarget ==
    (last.op = "calculate_target" /\ last.g = "Inky") =>
        IF last.ref
        THEN /\ last.target[1] + ghosts["Blinky"].x = 2 * AheadOfPac[1]
             /\ last.target[2] + ghosts["Blinky"].y = 2 * AheadOfPac[2]
        ELSE last.target = <<pac.x, pac.y>>

\* Inky aimed past Pac-Man, who is heading up, away from a Blinky that is
\* neither on Pac-Man nor on the point ahead of it
C23_Witness ==
    /\ last.op = "calculate_target" /\ last.g = "Inky" /\ last.ref
    /\ pac.dir = "UP"
    /\ ghosts["Blinky"].x # pac.x /\ ghosts["Blinky"].y # AheadOfPac[2]
    /\ last.target # <<pac.x, pac.y>>
    /\ last.target # AheadOfPac

\* the square of the distance between Clyde and Pac-Man, and of 8 tiles
ClydeGap2 ==
    (ghosts["Clyde"].x - pac.x) * (ghosts["Clyde"].x - pac.x)
        + (ghosts["Clyde"].y - pac.y) * (ghosts["Clyde"].y - pac.y)
EightTiles2 == (8 * TILE_SIZE * PX) * (8 * TILE_SIZE * PX)

\* C24: Clyde's target is Pac-Man's position whenever the Euclidean distance
\* between Clyde and Pac-Man is strictly greater than 8 tiles, and the scatter
\* corner (1 * TILE_SIZE, (height - 2) * TILE_SIZE) otherwise, whatever Clyde's
\* mode and Pac-Man's direction.
C24_ClydeTarget ==
    (last.op = "calculate_target" /\ last.g = "Clyde") =>
        last.target = IF ClydeGap2 > EightTiles2
                      THEN <<pac.x, pac.y>>
                      ELSE <<TILE_SIZE * PX, (height(layout) - 2) * TILE_SIZE * PX>>

\* Clyde, in Chase, exactly 8 tiles from a Pac-Man heading left (4.8 tiles on
\* one axis and 6.4 on the other) aimed at its corner
C24_Witness ==
    /\ last.op = "calculate_target" /\ last.g = "Clyde"
    /\ ClydeGap2 = EightTiles2
    /\ ghosts["Clyde"].x # pac.x /\ ghosts["Clyde"].y # pac.y
    /\ ghosts["Clyde"].state = "CHASE" /\ pac.dir = "LEFT"
    /\ last.target = <<30 * PX, 600 * PX>>

\* the ghost as the _choose_direction of the last update found it: where the
\* update found it, with the mode and the target the update had set by then
Chooser == [last.pre EXCEPT !.state = ghosts[last.g].state, !.target = ghosts[last.g].target]

\* the directions that are not the reverse of the ghost's and lead to a walkable tile
Candidates ==
    {d \in DirSet :
        /\ d # Opposite(Chooser.dir)
        /\ is_walkable(layout, to_grid(Chooser.x, Chooser.y)[1] + DirValue(d)[1],
                               to_grid(Chooser.x, Chooser.y)[2] + DirValue(d)[2])}

\* the squared distance from the centre of the tile next in direction d to the target
ToTarget(d) ==
    Dist2(grid_to_pixel(to_grid(Chooser.x, Chooser.y)[1] + DirValue(d)[1], 0)[1],
          grid_to_pixel(0, to_grid(Chooser.x, Chooser.y)[2] + DirValue(d)[2])[2],
          Chooser.target[1], Chooser.target[2])

\* the place of a direction in the order Up, Down, Left, Right
Rank(d) == CHOOSE i \in 1..4 : <<"UP", "DOWN", "LEFT", "RIGHT">>[i] = d

\* both offsets from the centre of the tile are below 2 pixels
Centred(gh) ==
    /\ Abs(gh.x - (gh.x \div TILE) * TILE - TILE \div 2) < 2 * PX
    /\ Abs(gh.y - (gh.y \div TILE) * TILE - TILE \div 2) < 2 * PX

OnCentre(gh) == <<gh.x, gh.y>> = grid_to_pixel(to_grid(gh.x, gh.y)[1], to_grid(gh.x, gh.y)[2])

\* C30: when an Active ghost at a tile centre has no non-reverse direction
\* leading to a walkable tile (a dead end), it keeps its current direction and
\* the motion step holds it at the tile centre: its position does not advance
\* past the centre toward the non-walkable tile.  The tile ahead is taken on
\* the map: at a mouth of the tunnel the step wraps to the other side (C21).
C30_HeldAtCentre ==
    (/\ GhostMoved /\ last.pre.house = "ACTIVE"
     /\ OnCentre(Chooser) /\ Candidates = {}
     /\ to_grid(Chooser.x, Chooser.y)[1] + DirValue(Chooser.dir)[1] \in 0..(width(layout) - 1)) =>
        /\ ghosts[last.g].dir = Chooser.dir
        /\ <<ghosts[last.g].x, ghosts[last.g].y>> = <<Chooser.x, Chooser.y>>

----------------------------------------------------------------------------
(* Claims on the order of a tick and on the house (Spec, SpecGhost) *)

\* ghost g stands at the same point in the two records
SamePlace(a, b, g) == a[g].x = b[g].x /\ a[g].y = b[g].y

TickCalls == {"release_from_house", "start_frightened", "get_eaten", "update"}

\* Pac-Man eats Frightened ghosts only: a ghost that is Eaten has been
\* Frightened, and get_eaten() is called on a Frightened ghost
EatenInPlay(gh) ==
    /\ gh.state = "EATEN" => gh.ftimer > 0
    /\ last.op = "get_eaten" => gh.state = "FRIGHTENED"

\* C27: across any sequence of ticks the house state of a ghost changes only
\* by InHouse -> Exiting on a release signal, Exiting -> Active on reaching the
\* house exit, and Active -> Exiting on the respawn after being eaten: a ghost
\* leaves InHouse only through release_from_house(), never as a side effect of
\* being eaten, and no tick moves a ghost from Active or Exiting back to InHouse.
C27_HouseTransitions ==
    (last.op \in TickCalls /\ EatenInPlay(last.pre)) =>
        \/ ghosts[last.g].house = last.pre.house
        \/ /\ last.pre.house = "IN_HOUSE" /\ ghosts[last.g].house = "EXITING"
           /\ last.op = "release_from_house"
        \/ /\ last.pre.house = "EXITING" /\ ghosts[last.g].house = "ACTIVE"
           /\ last.op = "update"
           /\ Abs(last.pre.x - HouseExit.x) <= 2 * PX /\ Abs(last.pre.y - HouseExit.y) <= 2 * PX
        \/ /\ last.pre.house = "ACTIVE" /\ ghosts[last.g].house = "EXITING"
           /\ last.op = "update" /\ last.pre.state = "EATEN"

----------------------------------------------------------------------------
(* Claims on the way out of the house (SpecExit, SpecExitLive) *)

\* an update that ran _exit_house on an Exiting ghost
ExitStep == last.op = "update" /\ last.trace = {"_exit_house"}

\* the gaps to the house-exit point before the update
GapX == Abs(last.pre.x - HouseExit.x)
GapY == Abs(last.pre.y - HouseExit.y)

C32_ExitingBecomesActive ==
    (ghosts[gut].house = "EXITING") ~> (ghosts[gut].house = "ACTIVE")

\* Pinky is Active after it was frightened and then eaten on its way out
C32_Witness ==
    /\ gut = "Pinky" /\ ghosts["Pinky"].house = "ACTIVE"
    /\ ncalls = MaxExitCalls
    /\ ExitStep


----------------------------------------------------------------------------
(* Claims on the way home of an eaten ghost (SpecReturn) *)

\* the ghost has respawned: Scatter, on its way out of the house
Respawned ==
    /\ last.op = "update" /\ last.trace = {"_respawn_in_house"}
    /\ ghosts[gut].state = "SCATTER" /\ ghosts[gut].house = "EXITING"

\* C33: an Eaten ghost returns to the house and respawns: from every state in
\* which a ghost is Eaten, if ticks keep running, it eventually comes within
\* one tile of the house-exit point and respawns (Scatter, Exiting), whatever
\* tile, direction and house state it had when it was eaten.
C33_EatenReturns == is_eaten(ghosts[gut]) ~> Respawned


----------------------------------------------------------------------------
(* Claims on the broadcast of the mode and on the speeds (SpecBroadcast) *)

\* set_ghost_modes() has just run
Broadcast == last.op = "set_ghost_modes"

\* the broadcast left the mode and the direction of the ghost as they were
Ignored == ghosts[last.g].state = last.pre.state /\ ghosts[last.g].dir = last.pre.dir

C37_SpeedByMode ==
    \A g \in GhostNames :
        /\ ghosts[g].speed = FRIGHTENED_SPEED <=> ghosts[g].state = "FRIGHTENED"
        /\ ghosts[g].speed = EATEN_SPEED <=> ghosts[g].state = "EATEN"
        /\ ghosts[g].speed = GHOST_SPEED <=> ghosts[g].state \in {"SCATTER", "CHASE"}

\* a ghost that was frightened and eaten is back at GHOST_SPEED after its respawn
C37_Witness ==
    /\ last.op = "update" /\ last.trace = {"_respawn_in_house"}
    /\ last.pre.speed = EATEN_SPEED
    /\ ghosts[last.g].speed = GHOST_SPEED /\ ghosts[last.g].state = "SCATTER"


----------------------------------------------------------------------------
(* Claims on the eating slowdown, the grid and the lives (SpecPac, Spec) *)

\* the update just made consumed a pellet or a power pellet
Consumed == last.op = "pacman.update" /\ last.fed.score > last.moved.score

\* C35: eating a pellet or a power pellet triggers an eating slowdown: the
\* movement step of the update that follows the one in which Pac-Man consumed
\* the cell is performed with the reduced speed multiplier 0.87 (turned is
\* Pac-Man as _move takes it).
C35_EatingSlowdown ==
    [][ (Consumed /\ last'.op = "pacman.update" /\ nupd' = nupd + 1) =>
            last'.turned.mult = EATING_MULTIPLIER ]_vars


\* the cells of the grid, as grid coordinates
Cells == {<<x, y>> : x \in 0..(width(layout) - 1), y \in 0..(height(layout) - 1)}

\* C36: the grid is mutated only by the collection step (of Pac-Man's update,
\* on the cell Pac-Man is over) and only by turning a pellet or power-pellet
\* cell into an open one: wall cells never change and no cell becomes a wall,
\* so the set of walkable cells stays the same, and no movement or direction
\* decision of the tick (Pac-Man's turn and move, a ghost's update) differs
\* between the grid before and the grid after the collection.
C36_GridMutation ==
    [][ layout' # layout =>
        /\ \A c \in Cells :
              get_cell(layout', c[1], c[2]) # get_cell(layout, c[1], c[2]) =>
                  /\ get_cell(layout, c[1], c[2]) \in {2, 3}
                  /\ get_cell(layout', c[1], c[2]) = 0
                  /\ c = pellet_cell(last'.moved)
        /\ \A c \in Cells : is_walkable(layout', c[1], c[2]) <=> is_walkable(layout, c[1], c[2])
        /\ last'.op = "pacman.update"
        /\ try_change_direction(last'.asked, layout') = try_change_direction(last'.asked, layout)
        /\ pac_move(last'.turned, layout') = pac_move(last'.turned, layout)
        /\ \A g \in GhostNames :
              update(g, ghosts'[g], layout', pac'.x, pac'.y, DirValue(pac'.dir),
                     BlinkyPosition(ghosts'))
              = update(g, ghosts'[g], layout, pac'.x, pac'.y, DirValue(pac'.dir),
                       BlinkyPosition(ghosts')) ]_vars

\* the update just made took the pellet under Pac-Man out of the grid
C36_Witness ==
    /\ Consumed
    /\ last.cell = 2
    /\ get_cell(layout, pellet_cell(last.moved)[1], pellet_cell(last.moved)[2]) = 0


\* C38: at the end of every tick, every ghost whose house state is Active and
\* whose mode is Scatter or Chase is in the mode the schedule prescribes for
\* the current timer (get_ghost_mode(timer)): a ghost that left the house,
\* finished a Frightened period or respawned after the last mode transition
\* is not left in a stale mode.
C38_NoStaleMode ==
    last.op = "main" =>
        \A g \in GhostNames :
            (ghosts[g].house = "ACTIVE" /\ ghosts[g].state \in {"SCATTER", "CHASE"}) =>
                ghosts[g].state = get_ghost_mode(timer)


\* C40: within a single tick Pac-Man's lives decrease by at most 1, however
\* many dangerous ghosts are within the hitbox distance at the same time, and
\* lives is never negative.
C40_OneLifePerTick ==
    [][ last'.op = "pacman.update" =>
            /\ pac'.lives >= pac.lives - 1
            /\ pac'.lives >= 0 ]_vars

----------------------------------------------------------------------------
(* Claims on the tiles of the ghosts (SpecReturn) *)

\* the tile the ghost is on
TileOf(gh) == to_grid(gh.x, gh.y)

\* C39: after any sequence of ticks on the shipped maze, the tile containing
\* each ghost whose house state is Active or Exiting is walkable; _move only
\* accepts a candidate position whose tile is walkable and otherwise puts the
\* ghost on the centre of its current tile, and the exit path from every
\* spawn position runs over walkable tiles.
C39_OnWalkableTile ==
    /\ \A g \in GhostNames :
          ghosts[g].house \in {"ACTIVE", "EXITING"} =>
              is_walkable(layout, TileOf(ghosts[g])[1], TileOf(ghosts[g])[2])
    /\ (last.op = "update" /\ "_move" \in last.trace) =>
          \/ OnCentre(ghosts[last.g]) /\ TileOf(ghosts[last.g]) = TileOf(last.pre)
          \/ /\ <<ghosts[last.g].x, ghosts[last.g].y>> # <<last.pre.x, last.pre.y>>
             /\ is_walkable(layout, TileOf(ghosts[last.g])[1], TileOf(ghosts[last.g])[2])

\* an eaten ghost whose next step fell in a wall tile was put back on the
\* centre of its tile
C39_Witness ==
    /\ last.op = "update" /\ "_move" \in last.trace
    /\ OnCentre(ghosts[last.g]) /\ ~OnCentre(last.pre)
    /\ TileOf(ghosts[last.g]) = TileOf(last.pre)
    /\ ghosts[last.g].dir = last.pre.dir
    /\ ~is_walkable(layout, TileOf(last.pre)[1] + DirValue(last.pre.dir)[1],
                            TileOf(last.pre)[2] + DirValue(last.pre.dir)[2])

========================================================================
